---------------------------- MODULE Spec2Model ----------------------------
(***************************************************************************)
(* WWMI Tools, blender_export/ini_maker.py: the mod.ini generator and its  *)
(* tamper-evident checksum stamp.                                          *)
(*                                                                         *)
(* A text is a sequence of symbols.  A symbol is a TLA+ string: a string   *)
(* of length one is that character; a longer string is a literal run of    *)
(* the source (a title, a command, a comment) that holds no line break,    *)
(* no leading or trailing white space and no part of the checksum prefix,  *)
(* so that every line operation of the code treats it as a unit.           *)
(***************************************************************************)
EXTENDS Integers, Sequences, FiniteSets, Bags, TLC

VARIABLES
    maker,      \* the IniMaker inputs of the export
    script,     \* the calls of a caller of the builder, one after the other
    pc,         \* position in IniMaker.__post_init__: the next make_* call
                \* (position in the script: the next call)
    locals,     \* local variables of the script: the objects they refer to
    ini,        \* the IniBuilder of the maker: groups, and its heap of objects
    calls,      \* log of the group and section calls that reached the builder
    raised,     \* the call of the builder that raised an error ("none" if none)
    builds,     \* number of IniMaker.build() calls so far
    lines,      \* the text handed to with_checksum
    signed,     \* what with_checksum returned for it (NoText before the call)
    exists,     \* whether the ini file is on disk
    file,       \* the characters of the ini file on disk
    verdict,    \* result of the latest is_ini_edited(file): "none" before
    hist,       \* how the file on disk came about (kind, and the last edit)
    lost,       \* a manually edited generated file was overwritten silently
    folder,     \* the entries of object_source_folder, in the order scandir yields them
    environ,    \* os.environ: the variables Path and texconv
    scanned,    \* number of entries get_textures has been through
    textures,   \* the dict of get_textures: its Textures in insertion order
    conversions, \* the attempts to convert a file to dds, with their outcomes
    returned    \* what get_textures returned (None before it returns)

vars ==
    <<maker, script, pc, locals, ini, calls, raised, builds, lines, signed, exists, file,
      verdict, hist, lost, folder, environ, scanned, textures, conversions, returned>>

\* the variables of the maker and its builder
makerVars == <<maker, script, pc, locals, ini, calls, raised, builds>>

\* the variables of the file on disk and its stamp
stampVars == <<lines, signed, exists, file, verdict, hist, lost>>

\* the variables of get_textures
collectorVars == <<folder, environ, scanned, textures, conversions, returned>>

-----------------------------------------------------------------------------
(* Bounds of the model *)

\* texts handed to with_checksum are made of at most this many segments
MaxSegs == 2

\* a mesh has at most this many components
MaxComponents == 1

\* at most this many textures are exported
MaxTextures == 1

\* IniMaker.build() is called at most this many times
MaxBuilds == 2

\* a caller adds at most this many clauses to a conditional block
MaxClauses == 3

\* no text of the model is longer than this many symbols
MaxTextLen == 2000

(* Program constants *)

\* hashlib.sha256(...).hexdigest() is 64 hexadecimal characters
DigestLen == 64

-----------------------------------------------------------------------------
(* Python string helpers, computed without deep recursion *)

NoText == <<"<none>">>

\* the indices of s, in order, whose element passes Test
Indices(s, Test(_)) == SelectSeq([i \in 1..Len(s) |-> i], LAMBDA i : Test(s[i]))

\* white space removed by str.strip()
Whitespace == {" ", "\n", "\r", "\t"}

\* str.strip(): leading and trailing white space removed
strip(s) ==
    LET keep == Indices(s, LAMBDA c : c \notin Whitespace)
    IN  IF keep = <<>> THEN <<>> ELSE SubSeq(s, keep[1], keep[Len(keep)])

\* str.startswith(p)
startswith(s, p) == Len(s) >= Len(p) /\ SubSeq(s, 1, Len(p)) = p

\* str.replace(p, ''): every occurrence of p removed, scanning left to right
RECURSIVE replace(_, _)
replace(s, p) ==
    LET occ == SelectSeq([i \in 1..(Len(s) - Len(p) + 1) |-> i],
                         LAMBDA i : s[i] = p[1] /\ SubSeq(s, i, i + Len(p) - 1) = p)
    IN  IF occ = <<>> THEN s
        ELSE SubSeq(s, 1, occ[1] - 1)
                 \o replace(SubSeq(s, occ[1] + Len(p), Len(s)), p)

\* ''.join(data[lo..hi]) by halving
RECURSIVE joinRange(_, _, _)
joinRange(data, lo, hi) ==
    IF lo > hi THEN <<>>
    ELSE IF lo = hi THEN data[lo]
    ELSE LET mid == (lo + hi) \div 2
         IN  joinRange(data, lo, mid) \o joinRange(data, mid + 1, hi)

\* ''.join(data)
join(data) == joinRange(data, 1, Len(data))

-----------------------------------------------------------------------------
(* hashlib.sha256(text.encode('utf-8')).hexdigest()                         *)
(*                                                                         *)
(* The digest is modelled by a keyed polynomial hash in four lanes, each    *)
(* modulo a prime below 2^16, written as DigestLen lowercase hexadecimal    *)
(* characters.  Like SHA-256 it is a fixed-width function of every          *)
(* character of the text and of its position; two texts that differ in one  *)
(* character never share a digest.                                         *)

HexDigits == <<"0", "1", "2", "3", "4", "5", "6", "7",
               "8", "9", "a", "b", "c", "d", "e", "f">>

\* the characters the model tells apart, in code order
Alphabet == <<"\n", "\r", " ", "\t", ";", ":", "S", "H", "A", "C", "E", "K",
              "U", "M", "a", "b", "x", "[", "]", "=",
              "0", "1", "2", "3", "4", "5", "6", "7", "8", "9",
              "c", "d", "e", "f">>

CharCode == [c \in {Alphabet[i] : i \in 1..Len(Alphabet)} |->
                 CHOOSE i \in 1..Len(Alphabet) : Alphabet[i] = c]

\* utf-8 code of a symbol: a character by the table, a literal run by its length
Code(c) == IF c \in DOMAIN CharCode THEN CharCode[c] ELSE 100 + Len(c)

\* the digest varies in two lanes, each a sum modulo a prime below 2^16
LaneModulus == <<46337, 46327>>
LaneBase == <<131, 137>>

\* base^e modulo m, by squaring
RECURSIVE PowMod(_, _, _)
PowMod(base, e, m) ==
    IF e = 0 THEN 1
    ELSE LET half == PowMod(base, e \div 2, m)
             sq == (half * half) % m
         IN  IF e % 2 = 1 THEN (sq * base) % m ELSE sq

\* the weight of every position of a text in every lane
LaneWeights ==
    [lane \in 1..2 |-> [i \in 1..MaxTextLen |-> PowMod(LaneBase[lane], i, LaneModulus[lane])]]

\* value of a lane: the weighted sum of the codes of the text modulo the
\* prime of the lane; replacing one symbol by another always changes it
LaneValue(text, lane) ==
    BagCardinality([i \in 1..Len(text) |->
                       1 + ((Code(text[i]) * LaneWeights[lane][i]) % LaneModulus[lane])])
        % LaneModulus[lane]

\* four hexadecimal characters of a lane value below 2^16
Hex4(n) == << HexDigits[((n \div 4096) % 16) + 1], HexDigits[((n \div 256) % 16) + 1],
              HexDigits[((n \div 16) % 16) + 1], HexDigits[(n % 16) + 1] >>

\* hashlib.sha256(text.encode('utf-8')).hexdigest()
sha256(text) ==
    [i \in 1..(DigestLen - 8) |-> "0"] \o Hex4(LaneValue(text, 1)) \o Hex4(LaneValue(text, 2))

-----------------------------------------------------------------------------
(* The checksum stamp *)

\* checksum_prefix = '; SHA256 CHECKSUM: '
checksum_prefix == <<";", " ", "S", "H", "A", "2", "5", "6", " ",
                     "C", "H", "E", "C", "K", "S", "U", "M", ":", " ">>

\* a with_checksum that hashes the trimmed text
with_checksum_trimmed(text) ==
    text \o checksum_prefix \o sha256(strip(text)) \o <<"\n">>

\* a with_checksum that leaves out the final line break
with_checksum_no_break(text) == text \o checksum_prefix \o sha256(text)

\* IniMaker.with_checksum(lines)
with_checksum(text) == text \o checksum_prefix \o sha256(text) \o <<"\n">>

\* open(path, 'r') translates "\r\n" and a lone "\r" to "\n" (universal newlines)
translate(raw) ==
    LET pairs == [i \in 1..Len(raw) |->
                     [c |-> raw[i], prev |-> IF i = 1 THEN "" ELSE raw[i - 1]]]
        kept == SelectSeq(pairs, LAMBDA p : ~(p.c = "\n" /\ p.prev = "\r"))
    IN  [i \in 1..Len(kept) |-> IF kept[i].c = "\r" THEN "\n" ELSE kept[i].c]

\* list(f): the lines of the file, each with its line break
readlines(raw) ==
    LET t == translate(raw)
        ends == Indices(t, LAMBDA c : c = "\n")
        n == Len(ends)
        whole == [k \in 1..n |->
                     SubSeq(t, IF k = 1 THEN 1 ELSE ends[k - 1] + 1, ends[k])]
        last == IF n = 0 THEN 0 ELSE ends[n]
    IN  IF last < Len(t) THEN Append(whole, SubSeq(t, last + 1, Len(t))) ELSE whole

\* an is_ini_edited that reports a file without the prefix as edited
is_ini_edited_strict(raw) ==
    LET data == readlines(raw)
    IN  IF data = <<>> THEN "IndexError"
        ELSE LET checksum == strip(data[Len(data)])
             IN  IF ~startswith(checksum, checksum_prefix) THEN "True"
                 ELSE IF sha256(join(SubSeq(data, 1, Len(data) - 1)))
                             # replace(checksum, checksum_prefix)
                      THEN "True" ELSE "False"

\* an is_ini_edited that hashes every line, the checksum stamp included
is_ini_edited_all_lines(raw) ==
    LET data == readlines(raw)
    IN  IF data = <<>> THEN "IndexError"
        ELSE LET checksum == strip(data[Len(data)])
             IN  IF ~startswith(checksum, checksum_prefix) THEN "False"
                 ELSE IF sha256(join(data)) # replace(checksum, checksum_prefix)
                      THEN "True" ELSE "False"

\* is_ini_edited(ini_path), on the characters of the file at ini_path
is_ini_edited(raw) ==
    LET data == readlines(raw)
    IN  IF data = <<>> THEN "IndexError"
        ELSE LET checksum == strip(data[Len(data)])
             IN  IF ~startswith(checksum, checksum_prefix) THEN "False"
                 ELSE LET digest == replace(checksum, checksum_prefix)
                          ini_data == SubSeq(data, 1, Len(data) - 1)
                          ini_sha256 == sha256(join(ini_data))
                      IN  IF ini_sha256 # digest THEN "True" ELSE "False"

-----------------------------------------------------------------------------
(***************************************************************************)
(* The ini builder (IniBuilder, IniSection, IniSectionConditional and      *)
(* SectionType of the ini_builder module).  Its objects are kept in a      *)
(* heap, a sequence of records addressed by position, so that two          *)
(* references to one section, body or conditional stay one object.         *)
(***************************************************************************)

\* Python's None and a present optional value
None == <<>>
Some(v) == <<v>>

\* IniBuilder(cfg): no groups yet, an empty leading header
IniBuilder(cfg) ==
    [header |-> <<>>, skip_comments |-> cfg.skip_comments, groups |-> <<>>, heap |-> <<>>]

\* the position in ini.groups of the group numbered index (0 when absent)
GroupPos(b, index) ==
    LET at == Indices(b.groups, LAMBDA g : g.index = index)
    IN  IF at = <<>> THEN 0 ELSE at[1]

\* the group numbered index, created empty at first use
get_group(b, index) ==
    IF GroupPos(b, index) # 0 THEN b
    ELSE [b EXCEPT !.groups =
              Append(@, [index |-> index, header |-> <<>>, footer |-> <<>>, sections |-> <<>>])]

set_group_header(b, index, text) ==
    LET g == get_group(b, index)
    IN  [g EXCEPT !.groups[GroupPos(g, index)].header = text]

\* a faulty footer setter: it opens a group of its own for the index
set_group_footer_fresh(b, index, text) ==
    [b EXCEPT !.groups =
        Append(SelectSeq(@, LAMBDA g : g.index # index),
               [index |-> index, header |-> <<>>, footer |-> text, sections |-> <<>>])]

set_group_footer(b, index, text) ==
    LET g == get_group(b, index)
    IN  [g EXCEPT !.groups[GroupPos(g, index)].footer = text]

\* a faulty add_section: the group keeps a copy of the section and of its
\* body as they are when the section is added
add_section_snapshot(b, section, index) ==
    LET g == get_group(b, index)
        n == Len(g.heap)
        copy == Append(Append(g.heap, g.heap[g.heap[section].body]),
                       [g.heap[section] EXCEPT !.body = n + 1])
    IN  [g EXCEPT !.heap = copy,
                  !.groups[GroupPos(g, index)].sections = Append(@, n + 2)]

add_section(b, section, index) ==
    LET g == get_group(b, index)
    IN  [g EXCEPT !.groups[GroupPos(g, index)].sections = Append(@, section)]

\* IniSection(comment, name, section_type, hash): a section and its empty
\* body join the heap; the section is the last object
NewSection(b, comment, name, section_type, hash) ==
    LET n == Len(b.heap)
    IN  [b EXCEPT !.heap = @ \o
            << [kind |-> "body", entries |-> <<>>],
               [kind |-> "section", comment |-> comment, name |-> name,
                section_type |-> section_type, hash |-> hash, body |-> n + 1] >>]

\* the body an object stands for: a section's body, or the body itself
BodyOf(b, id) == IF b.heap[id].kind = "section" THEN b.heap[id].body ELSE id

\* body.add_comment / add_persistent_comment / add_command(text)
add_line(b, body, t, text) ==
    [b EXCEPT !.heap[body].entries = Append(@, [t |-> t, text |-> text])]

\* body.add_command(IniSectionConditional()): the conditional joins the heap
\* as the last object and the body refers to it
add_conditional(b, body) ==
    LET n == Len(b.heap)
    IN  [b EXCEPT !.heap = Append([@ EXCEPT ![body].entries =
                                        Append(@, [t |-> "conditional", ref |-> n + 1])],
                                  [kind |-> "conditional", clauses |-> <<>>])]

\* an add_if_clause that merges clauses of equal condition: the second one
\* is not added to the block
add_if_clause_merging(b, conditional, condition) ==
    LET n == Len(b.heap)
        known == \E k \in 1..Len(b.heap[conditional].clauses) :
                    b.heap[conditional].clauses[k].condition = condition
    IN  [b EXCEPT !.heap = Append([@ EXCEPT ![conditional].clauses =
                                        IF known THEN @
                                        ELSE Append(@, [condition |-> condition, body |-> n + 1])],
                                  [kind |-> "body", entries |-> <<>>])]

\* conditional.add_if_clause(condition): a clause with a fresh empty body,
\* which is the last object of the heap
add_if_clause(b, conditional, condition) ==
    LET n == Len(b.heap)
    IN  [b EXCEPT !.heap = Append([@ EXCEPT ![conditional].clauses =
                                        Append(@, [condition |-> condition, body |-> n + 1])],
                                  [kind |-> "body", entries |-> <<>>])]

SectionKindPrefix ==
    [Constants |-> "Constants", Present |-> "Present", Resource |-> "Resource",
     CommandList |-> "CommandList", TextureOverride |-> "TextureOverride"]

\* section.get_section_title(): kind and name
get_section_title(section) == SectionKindPrefix[section.section_type] \o section.name

\* conditional.add_else_clause(): the clause without a condition
add_else_clause(b, conditional) == add_if_clause(b, conditional, None)

\* the objects of the heap a body holds, directly or in its blocks
RECURSIVE Within(_, _)
Within(b, ids) ==
    LET below == UNION { LET o == b.heap[id]
                         IN  CASE o.kind = "section" -> {o.body}
                               [] o.kind = "body" ->
                                    {o.entries[i].ref : i \in {j \in 1..Len(o.entries) :
                                                                 o.entries[j].t = "conditional"}}
                               [] o.kind = "conditional" ->
                                    {o.clauses[k].body : k \in 1..Len(o.clauses)}
                         : id \in ids }
    IN  IF below \subseteq ids THEN ids ELSE Within(b, ids \cup below)

\* the sections added to the builder, and all objects they hold
Added(b) == UNION {{b.groups[g].sections[i] : i \in 1..Len(b.groups[g].sections)}
                   : g \in 1..Len(b.groups)}
Attached(b) == Within(b, Added(b))

\* structural misuse the builder reports to its caller where it happens:
\* a TextureOverride section constructed without a hash,
section_error(section_type, hash) == section_type = "TextureOverride" /\ hash = None

\* a builder that accepts a clause after the unconditional one
clause_error_never(b, conditional) == FALSE

\* a clause added to a block that was closed by its unconditional clause,
clause_error(b, conditional) ==
    LET clauses == b.heap[conditional].clauses
    IN  clauses # <<>> /\ clauses[Len(clauses)].condition = None

\* a section added twice, or under a title the document already holds,
title_error(b, section) ==
    \E id \in Added(b) :
        get_section_title(b.heap[id]) = get_section_title(b.heap[section])

\* and a block without any clause in a document that is to be rendered
build_error(b) ==
    \E id \in Attached(b) : b.heap[id].kind = "conditional" /\ b.heap[id].clauses = <<>>

\* the concatenation of the sequences pieces[lo], ..., pieces[hi]
RECURSIVE FlattenRange(_, _, _)
FlattenRange(pieces, lo, hi) ==
    IF lo > hi THEN <<>>
    ELSE IF lo = hi THEN pieces[lo]
    ELSE LET mid == (lo + hi) \div 2
         IN  FlattenRange(pieces, lo, mid) \o FlattenRange(pieces, mid + 1, hi)

Flatten(pieces) == FlattenRange(pieces, 1, Len(pieces))

\* one level of indentation of a clause body
IndentUnit == <<" ", " ">>

\* a rendered line
Line(indent, s) == indent \o <<s, "\n">>

\* rendering of a body: its entries in order; a conditional renders as
\* if / else if / else / endif around its clause bodies, one level deeper
RECURSIVE RenderBody(_, _, _)
RenderBody(b, body, indent) ==
    LET entries == b.heap[body].entries
        RenderClause(cond, k) ==
            LET clause == b.heap[cond].clauses[k]
                head == IF clause.condition = None THEN "else"
                        ELSE IF k = 1 THEN "if " \o clause.condition[1]
                        ELSE "else if " \o clause.condition[1]
            IN  Line(indent, head) \o RenderBody(b, clause.body, indent \o IndentUnit)
        RenderEntry(i) ==
            LET e == entries[i]
            IN  CASE e.t = "comment" ->
                       IF b.skip_comments THEN <<>> ELSE Line(indent, "; " \o e.text)
                  [] e.t = "persistent_comment" -> Line(indent, "; " \o e.text)
                  [] e.t = "command" -> Line(indent, e.text)
                  [] e.t = "conditional" ->
                       Flatten([k \in 1..Len(b.heap[e.ref].clauses) |-> RenderClause(e.ref, k)])
                       \o Line(indent, "endif")
    IN  Flatten([i \in 1..Len(entries) |-> RenderEntry(i)])

\* a rendering of a section that shows the hash line after the body
RenderSection_hash_last(b, id) ==
    LET section == b.heap[id]
        untitled == section.section_type \in {"Constants", "Present"}
    IN  <<"\n">>
        \o (IF section.comment = None \/ b.skip_comments THEN <<>>
            ELSE Line(<<>>, "; " \o section.comment[1]))
        \o (IF untitled THEN <<>> ELSE Line(<<>>, "[" \o get_section_title(section) \o "]"))
        \o RenderBody(b, section.body, <<>>)
        \o (IF section.section_type = "TextureOverride"
            THEN Line(<<>>, "hash = " \o section.hash[1]) ELSE <<>>)

\* rendering of a section: blank line, comment, title, hash line, body
RenderSection(b, id) ==
    LET section == b.heap[id]
        untitled == section.section_type \in {"Constants", "Present"}
    IN  <<"\n">>
        \o (IF section.comment = None \/ b.skip_comments THEN <<>>
            ELSE Line(<<>>, "; " \o section.comment[1]))
        \o (IF untitled THEN <<>> ELSE Line(<<>>, "[" \o get_section_title(section) \o "]"))
        \o (IF section.section_type = "TextureOverride"
            THEN Line(<<>>, "hash = " \o section.hash[1]) ELSE <<>>)
        \o RenderBody(b, section.body, <<>>)

\* rendering of a group: header, sections in insertion order, footer
RenderGroup(b, g) ==
    g.header
    \o Flatten([i \in 1..Len(g.sections) |-> RenderSection(b, g.sections[i])])
    \o g.footer

\* the groups by ascending index
GroupsAscending(b) ==
    LET idx == {b.groups[p].index : p \in 1..Len(b.groups)}
        Rank(p) == Cardinality({i \in idx : i < b.groups[p].index}) + 1
    IN  [r \in 1..Len(b.groups) |->
            b.groups[CHOOSE p \in 1..Len(b.groups) : Rank(p) = r]]

\* IniBuilder.build(): leading header, then every group by ascending index
ini_build(b) ==
    LET gs == GroupsAscending(b)
    IN  b.header \o Flatten([r \in 1..Len(gs) |-> RenderGroup(b, gs[r])])

-----------------------------------------------------------------------------
(***************************************************************************)
(* The calls a make_* method of IniMaker issues, in program order.  A      *)
(* call names the local variables it reads and binds, as the method does.  *)
(***************************************************************************)

SetGroupHeader(index, text) == [call |-> "set_group_header", index |-> index, text |-> text]
SetGroupFooter(index, text) == [call |-> "set_group_footer", index |-> index, text |-> text]
IniSection(var, comment, name, section_type, hash) ==
    [call |-> "IniSection", var |-> var, comment |-> comment, name |-> name,
     section_type |-> section_type, hash |-> hash]
AddSection(var, index) == [call |-> "add_section", var |-> var, index |-> index]
AddComment(target, text) == [call |-> "add_comment", target |-> target, text |-> text]
AddPersistentComment(target, text) ==
    [call |-> "add_persistent_comment", target |-> target, text |-> text]
AddCommand(target, text) == [call |-> "add_command", target |-> target, text |-> text]
\* add_command(f'...{section.get_section_title()}')
AddCommandTitle(target, text, section) ==
    [call |-> "add_command_title", target |-> target, text |-> text, section |-> section]
\* var = target.add_command(IniSectionConditional())
AddConditional(target, var) == [call |-> "add_conditional", target |-> target, var |-> var]
\* var = conditional.add_if_clause(condition)
AddIfClause(conditional, condition, var) ==
    [call |-> "add_if_clause", conditional |-> conditional, condition |-> condition, var |-> var]
\* var = conditional.add_else_clause()
AddElseClause(conditional, var) ==
    [call |-> "add_else_clause", conditional |-> conditional, var |-> var]

\* no local variable is bound
NoLocals == [v \in {} |-> 0]

\* one call applied to the builder b, the local variables env and the log
Exec(st, c) ==
    LET b == st.ini
        env == st.env
        Bind(var, nb) == [st EXCEPT !.ini = nb, !.env = (var :> Len(nb.heap)) @@ env]
        Keep(nb) == [st EXCEPT !.ini = nb]
        Raise == [st EXCEPT !.raised = c.call]
    IN  CASE c.call = "set_group_header" ->
               [st EXCEPT !.ini = set_group_header(b, c.index, c.text),
                          !.log = Append(@, [call |-> c.call, index |-> c.index, section |-> 0,
                                             text |-> c.text])]
          [] c.call = "set_group_footer" ->
               [st EXCEPT !.ini = set_group_footer(b, c.index, c.text),
                          !.log = Append(@, [call |-> c.call, index |-> c.index, section |-> 0,
                                             text |-> c.text])]
          [] c.call = "IniSection" ->
               IF section_error(c.section_type, c.hash) THEN Raise
               ELSE Bind(c.var, NewSection(b, c.comment, c.name, c.section_type, c.hash))
          [] c.call = "add_section" ->
               IF title_error(b, env[c.var]) THEN Raise
               ELSE [st EXCEPT !.ini = add_section(b, env[c.var], c.index),
                               !.log = Append(@, [call |-> c.call, index |-> c.index,
                                                  section |-> env[c.var], text |-> <<>>])]
          [] c.call = "add_comment" ->
               Keep(add_line(b, BodyOf(b, env[c.target]), "comment", c.text))
          [] c.call = "add_persistent_comment" ->
               Keep(add_line(b, BodyOf(b, env[c.target]), "persistent_comment", c.text))
          [] c.call = "add_command" ->
               Keep(add_line(b, BodyOf(b, env[c.target]), "command", c.text))
          [] c.call = "add_command_title" ->
               Keep(add_line(b, BodyOf(b, env[c.target]), "command",
                             c.text \o get_section_title(b.heap[env[c.section]])))
          [] c.call = "add_conditional" ->
               Bind(c.var, add_conditional(b, BodyOf(b, env[c.target])))
          [] c.call = "add_if_clause" ->
               IF clause_error(b, env[c.conditional]) THEN Raise
               ELSE Bind(c.var, add_if_clause(b, env[c.conditional], Some(c.condition)))
          [] c.call = "add_else_clause" ->
               IF clause_error(b, env[c.conditional]) THEN Raise
               ELSE Bind(c.var, add_else_clause(b, env[c.conditional]))

\* the calls program[lo..hi] applied in order
RECURSIVE RunRange(_, _, _, _)
RunRange(st, program, lo, hi) ==
    IF lo > hi \/ st.raised # "none" THEN st
    ELSE IF lo = hi THEN Exec(st, program[lo])
    ELSE LET mid == (lo + hi) \div 2
             half == RunRange(st, program, lo, mid)
         IN  \* the first half is computed before the second half starts
             IF Len(half.log) >= 0 THEN RunRange(half, program, mid + 1, hi) ELSE half

\* a method body run on the builder with fresh local variables; the call
\* that raises ends it
Run(b, log, program) ==
    RunRange([ini |-> b, env |-> NoLocals, log |-> log, raised |-> "none"],
             program, 1, Len(program))

\* the calls of a loop: Body(1), ..., Body(n) one after the other
ForEach(n, Body(_)) == Flatten([i \in 1..n |-> Body(i)])

\* decimal digits of a small number, as str() gives them
Str(i) == <<"0", "1", "2", "3", "4", "5", "6", "7", "8", "9">>[i + 1]

\* the characters of a text as one string
RECURSIVE FlatRange(_, _, _)
FlatRange(text, lo, hi) ==
    IF lo > hi THEN ""
    ELSE IF lo = hi THEN text[lo]
    ELSE LET mid == (lo + hi) \div 2
         IN  FlatRange(text, lo, mid) \o FlatRange(text, mid + 1, hi)

Flat(text) == FlatRange(text, 1, Len(text))

-----------------------------------------------------------------------------
(* The make_* methods of IniMaker, call by call *)

\* IniMaker.make_mod_state_group
make_mod_state_group(self) ==
    << SetGroupHeader(0, <<"; Mod State -------------------------", "\n", "\n">>),
       IniSection("constants", Some("Global variables used by entire mod"), "", "Constants", None),
       AddSection("constants", 0),
       AddComment("constants", "Allows WWMI to safely disable incopatible mod and notify user about it"),
       AddCommand("constants", "global $required_wwmi_version = " \o self.mod_info.required_wwmi_version.as_float),
       AddComment("constants", "Number of indicies in original model"),
       AddCommand("constants", "global $object_guid = " \o self.mesh_object.original_index_count),
       AddComment("constants", "Number of verticies in custom model"),
       AddCommand("constants", "global $mesh_vertex_count = " \o self.mesh_object.custom_vertex_count),
       AddComment("constants", "Number of shapekeyed verticies in custom model"),
       AddCommand("constants", "global $shapekey_vertex_count = " \o Str(self.shapekeys.custom_vertex_count)),
       AddComment("constants", "ID assigned to our mod by WWMI"),
       AddCommand("constants", "global $mod_id = -1000"),
       AddComment("constants", "Controls whether our mod is enabled, prevents any overrides from happening if $mod_enabled == 0"),
       AddComment("constants", "Prevents user from being crash-locked in case of incompatible WWMI version"),
       AddCommand("constants", "global $mod_enabled = 0"),
       IniSection("present", Some("List of commands executed for every frame"), "", "Present", None),
       AddSection("present", 0) >>

\* IniMaker.make_mod_info_group
make_mod_info_group(self) ==
    << SetGroupHeader(1, <<"; Resources: Mod Info -------------------------", "\n", "\n">>),
       IniSection("mod_name", Some("Name of mod"), "ModName", "Resource", None),
       AddSection("mod_name", 1) >>
    \o (IF Len(strip(self.mod_info.mod_name)) # 0
        THEN << AddCommand("mod_name", "type = Buffer"),
                AddCommand("mod_name", "data = \"" \o Flat(self.mod_info.mod_name) \o "\"") >>
        ELSE << AddPersistentComment("mod_name", "type = Buffer"),
                AddPersistentComment("mod_name", "data = \"Unknown Mod Name\"") >>)
    \o << IniSection("mod_author", Some("Name of mod author"), "ModAuthor", "Resource", None),
       AddSection("mod_author", 1) >>
    \o (IF Len(strip(self.mod_info.mod_author)) # 0
        THEN << AddCommand("mod_author", "type = Buffer"),
                AddCommand("mod_author", "data = \"" \o Flat(self.mod_info.mod_author) \o "\"") >>
        ELSE << AddPersistentComment("mod_author", "type = Buffer"),
                AddPersistentComment("mod_author", "data = \"Unknown Mod Author\"") >>)
    \o << IniSection("mod_desc", Some("Mod description"), "ModDesc", "Resource", None),
       AddSection("mod_desc", 1) >>
    \o (IF Len(strip(self.mod_info.mod_desc)) # 0
        THEN << AddCommand("mod_desc", "type = Buffer"),
                AddCommand("mod_desc", "data = \"" \o Flat(self.mod_info.mod_desc) \o "\"") >>
        ELSE << AddPersistentComment("mod_desc", "type = Buffer"),
                AddPersistentComment("mod_desc", "data = \"Empty Mod Description\"") >>)
    \o << IniSection("mod_link", Some("Link to mod repository"), "ModLink", "Resource", None),
       AddSection("mod_link", 1) >>
    \o (IF Len(strip(self.mod_info.mod_link)) # 0
        THEN << AddCommand("mod_link", "type = Buffer"),
                AddCommand("mod_link", "data = \"" \o Flat(self.mod_info.mod_link) \o "\"") >>
        ELSE << AddPersistentComment("mod_link", "type = Buffer"),
                AddPersistentComment("mod_link", "data = \"Empty Mod Link\"") >>)
    \o << IniSection("mod_logo", Some("Texture file with 512x512 .dds (BC7 SRGB) mod logo"), "ModLogo", "Resource", None),
       AddSection("mod_logo", 1) >>
    \o (IF self.mod_info.mod_logo.is_file
        THEN << AddCommand("mod_logo", "filename = Textures/Logo.dds") >>
        ELSE << AddPersistentComment("mod_logo", "filename = Textures/Logo.dds") >>)

\* IniMaker.make_draw_calls_group
make_draw_calls_group(self) ==
    << SetGroupHeader(2, <<"; Shading: Draw Call Stacks Processing -------------------------", "\n", "\n">>),
       IniSection("replace_shared_resources", Some("Overrides resources that are shared between VS calls"), "OverrideSharedResources", "CommandList", None),
       AddSection("replace_shared_resources", 2),
       AddComment("replace_shared_resources", "Override Index Buffer to make draw calls use custom faces"),
       AddCommand("replace_shared_resources", "ib = ResourceIndexBuffer"),
       AddComment("replace_shared_resources", "Vertex Shader Textures slots require special attention, as they can be leaked outside if unused by the call"),
       AddComment("replace_shared_resources", "Lets use helper funnction to ensure original vs-t slots content gonna be restored after the call"),
       AddCommand("replace_shared_resources", "run = CommandList\\WWMIv1\\BackupRestoreVertexTextureSlots"),
       AddComment("replace_shared_resources", "Override Texcoord and Color Buffers to make draw calls use custom UVs and Vertex Colors"),
       AddCommand("replace_shared_resources", "vs-t0 = ResourceTexcoordBuffer"),
       AddCommand("replace_shared_resources", "vs-t2 = ResourceColorBuffer"),
       IniSection("replace_textures", Some("Overrides textures via triggering [ResourceTextureX] sections by calling chechtextureoverride on ps-t slots"), "OverrideTextures", "CommandList", None),
       AddSection("replace_textures", 2),
       AddCommand("replace_textures", "checktextureoverride = ps-t0"),
       AddCommand("replace_textures", "checktextureoverride = ps-t1"),
       AddCommand("replace_textures", "checktextureoverride = ps-t2"),
       AddCommand("replace_textures", "checktextureoverride = ps-t3"),
       AddCommand("replace_textures", "checktextureoverride = ps-t4"),
       AddCommand("replace_textures", "checktextureoverride = ps-t5"),
       AddCommand("replace_textures", "checktextureoverride = ps-t6"),
       AddCommand("replace_textures", "checktextureoverride = ps-t7") >>
    \o ForEach(Len(self.mesh_object.components), LAMBDA i4 :
        LET component_id == i4 - 1
            component == self.mesh_object.components[i4]
        IN  << IniSection("replace_component", Some("Override draw calls for Component " \o Str(component_id)), "Component" \o Str(component_id), "TextureOverride", Some(self.mesh_object.vb0_hash)),
               AddSection("replace_component", 2),
               AddCommand("replace_component", "match_first_index = " \o component.stock_component.index_offset),
               AddCommand("replace_component", "match_index_count = " \o component.stock_component.index_count),
               AddConditional("replace_component", "mod_enabled_condition"),
               AddIfClause("mod_enabled_condition", "$mod_enabled", "mod_enabled_body"),
               AddComment("mod_enabled_body", "Skip original draw call"),
               AddCommand("mod_enabled_body", "handling = skip"),
               AddComment("mod_enabled_body", "Override shared resources"),
               AddCommandTitle("mod_enabled_body", "run = ", "replace_shared_resources"),
               AddComment("mod_enabled_body", "Override textures"),
               AddCommandTitle("mod_enabled_body", "run = ", "replace_textures") >>
            \o (IF component.custom_component # None
                THEN ForEach(Len(component.custom_component[1].components), LAMBDA i21 :
                         LET sub_component == component.custom_component[1].components[i21]
                         IN  << AddPersistentComment("mod_enabled_body", "Draw " \o sub_component.name),
                                AddCommand("mod_enabled_body", "drawindexed = " \o sub_component.index_count \o ", " \o sub_component.index_offset \o ", 0") >>)
                ELSE << AddPersistentComment("mod_enabled_body", "Draw skipped: No matching custom components found") >>))

\* a make_texture_resources_group that gives its override section no hash
make_texture_resources_group_no_hash(self) ==
    << SetGroupHeader(3, <<"; Shading: Textures -------------------------", "\n", "\n">>) >>
    \o ForEach(Len(self.textures), LAMBDA i4 :
        LET texture_id == i4 - 1
            texture == self.textures[i4]
        IN  << IniSection("texture_resoruce", None, "Texture" \o Str(texture_id), "Resource", None),
               AddSection("texture_resoruce", 3),
               AddCommand("texture_resoruce", "filename = Textures/" \o texture.filename),
               IniSection("texture_override", None, "Texture" \o Str(texture_id), "TextureOverride", None),
               AddSection("texture_override", 3),
               AddCommand("texture_override", "match_priority = 0"),
               AddCommandTitle("texture_override", "this = ", "texture_resoruce") >>)

\* a make_texture_resources_group whose override section is of kind Resource
make_texture_resources_group_one_kind(self) ==
    << SetGroupHeader(3, <<"; Shading: Textures -------------------------", "\n", "\n">>) >>
    \o ForEach(Len(self.textures), LAMBDA i4 :
        LET texture_id == i4 - 1
            texture == self.textures[i4]
        IN  << IniSection("texture_resoruce", None, "Texture" \o Str(texture_id), "Resource", None),
               AddSection("texture_resoruce", 3),
               AddCommand("texture_resoruce", "filename = Textures/" \o texture.filename),
               IniSection("texture_override", None, "Texture" \o Str(texture_id), "Resource", Some(texture.hash)),
               AddSection("texture_override", 3),
               AddCommand("texture_override", "match_priority = 0"),
               AddCommandTitle("texture_override", "this = ", "texture_resoruce") >>)

\* IniMaker.make_texture_resources_group
make_texture_resources_group(self) ==
    << SetGroupHeader(3, <<"; Shading: Textures -------------------------", "\n", "\n">>) >>
    \o ForEach(Len(self.textures), LAMBDA i4 :
        LET texture_id == i4 - 1
            texture == self.textures[i4]
        IN  << IniSection("texture_resoruce", None, "Texture" \o Str(texture_id), "Resource", None),
               AddSection("texture_resoruce", 3),
               AddCommand("texture_resoruce", "filename = Textures/" \o texture.filename),
               IniSection("texture_override", None, "Texture" \o Str(texture_id), "TextureOverride", Some(texture.hash)),
               AddSection("texture_override", 3),
               AddCommand("texture_override", "match_priority = 0"),
               AddCommandTitle("texture_override", "this = ", "texture_resoruce") >>)

\* IniMaker.make_shape_keys_override_group
make_shape_keys_override_group(self) ==
    << SetGroupHeader(4, <<"; Skinning: Shape Keys Override -------------------------", "\n", "\n">>),
       IniSection("raise_shape_key_offsets", Some("Increases size of UAV that stores shapekeyed vertices xyz offsets to support more vertices than original"), "VertexLimitRaiseShapeKeyOffsets", "TextureOverride", Some(self.shapekeys.offsets_hash)),
       AddSection("raise_shape_key_offsets", 4),
       AddCommand("raise_shape_key_offsets", "match_priority = 0"),
       IniSection("raise_shape_key_scale", Some("Increases size of UAV that stores shapekeyed vertices multipliers to support more vertices than original"), "VertexLimitRaiseShapeKeyScale", "TextureOverride", Some(self.shapekeys.scale_hash)),
       AddSection("raise_shape_key_scale", 4),
       AddCommand("raise_shape_key_scale", "match_priority = 0"),
       IniSection("setup_shapekeys", Some("Updates ResourceShapeKeyCBRW that stores offsets of shapekeyed vertex lists, shape key values and multipliers"), "SetupShapeKeys", "CommandList", None),
       AddSection("setup_shapekeys", 4),
       AddComment("setup_shapekeys", "Pass 4 byte checksum of shapekey offsets to ensure that we only modify expected values"),
       AddCommand("setup_shapekeys", "$\\WWMIv1\\shapekey_checksum = " \o self.shapekeys.checksum),
       AddComment("setup_shapekeys", "Pass buffer with offsets for vertex lists of every shape key of custom model"),
       AddCommand("setup_shapekeys", "cs-t33 = ResourceShapeKeyOffsetBuffer"),
       AddComment("setup_shapekeys", "Pass buffer with custom values for every shape key, allows to control both custom and stock"),
       AddCommand("setup_shapekeys", "cs-u5 = ResourceCustomShapeKeyValuesRW"),
       AddComment("setup_shapekeys", "Pass buffer that gonna store result of calculations, required for Shape Key Loader CS to run"),
       AddCommand("setup_shapekeys", "cs-u6 = ResourceShapeKeyCBRW"),
       AddComment("setup_shapekeys", "Run ShapeKeyOverrider CS"),
       AddCommand("setup_shapekeys", "run = CustomShader\\WWMIv1\\ShapeKeyOverrider"),
       IniSection("load_shapekeys", Some("Runs custom Shape Key Loader CS to, well, load shapekeys data from buffers"), "LoadShapeKeys", "CommandList", None),
       AddSection("load_shapekeys", 4),
       AddComment("load_shapekeys", "Pass number of shapekeyed vertices to adjust required threads count via dipatch_y"),
       AddCommand("load_shapekeys", "$\\WWMIv1\\shapekey_vertex_count = $shapekey_vertex_count"),
       AddComment("load_shapekeys", "Pass buffer with lists of per-vertex ids for every shape key"),
       AddCommand("load_shapekeys", "cs-t0 = ResourceShapeKeyVertexIdBuffer"),
       AddComment("load_shapekeys", "Pass buffer with lists of xyz per-vertex offsets for every shape key"),
       AddCommand("load_shapekeys", "cs-t1 = ResourceShapeKeyVertexOffsetBuffer"),
       AddComment("load_shapekeys", "Pass buffer with shape key vertex lists offsets, and shape key values & multipliers"),
       AddCommand("load_shapekeys", "cs-u6 = ResourceShapeKeyCBRW"),
       AddComment("load_shapekeys", "Run ShapeKeyLoader CS"),
       AddCommand("load_shapekeys", "run = CustomShader\\WWMIv1\\ShapeKeyLoader"),
       IniSection("loader_cs_callback", Some("Handles WWMI callback fired on original Shape Key Loader CS call"), "ShapeKeyLoaderCallback", "TextureOverride", Some(self.shapekeys.offsets_hash)),
       AddSection("loader_cs_callback", 4),
       AddCommand("loader_cs_callback", "match_priority = 0"),
       AddConditional("loader_cs_callback", "mod_enabled_condition"),
       AddIfClause("mod_enabled_condition", "$mod_enabled", "mod_enabled_body"),
       AddComment("mod_enabled_body", "Ensure that callback has WWMI filter_index of Shape Key Loader CS assigned"),
       AddConditional("mod_enabled_body", "loader_callback_condition"),
       AddIfClause("loader_callback_condition", "cs == 3381.3333", "loader_cs_body"),
       AddComment("loader_cs_body", "Skip handling of original Shape Key Loader CS call to modify dispatch_y value"),
       AddCommand("loader_cs_body", "handling = skip"),
       AddComment("loader_cs_body", "Run custom Shape Key Overrider CS to prepare shape key resources for loading"),
       AddCommandTitle("loader_cs_body", "run = ", "setup_shapekeys"),
       AddComment("loader_cs_body", "Run custom Shape Key Loader CS to load shape key resources"),
       AddCommandTitle("loader_cs_body", "run = ", "load_shapekeys"),
       IniSection("multiply_shapekeys", Some("Runs custom Shape Key Loader CS to, well, load shapekeys data from buffers"), "MultiplyShapeKeys", "CommandList", None),
       AddSection("multiply_shapekeys", 4),
       AddComment("multiply_shapekeys", "Pass number of shapekeyed vertices to adjust required threads count via dipatch_y"),
       AddCommand("multiply_shapekeys", "$\\WWMIv1\\shapekey_vertex_count = $shapekey_vertex_count"),
       AddComment("multiply_shapekeys", "Run custom Shape Key Multiplier CS to set deformation intensity"),
       AddCommand("multiply_shapekeys", "run = CustomShader\\WWMIv1\\ShapeKeyMultiplier"),
       IniSection("multiplier_cs_callback", Some("Handles WWMI callback fired on original Shape Key Multiplier CS call"), "ShapeKeyMultiplierCallback", "TextureOverride", Some(self.shapekeys.offsets_hash)),
       AddSection("multiplier_cs_callback", 4),
       AddCommand("multiplier_cs_callback", "match_priority = 0"),
       AddConditional("multiplier_cs_callback", "mod_enabled_condition"),
       AddIfClause("mod_enabled_condition", "$mod_enabled", "mod_enabled_body"),
       AddComment("mod_enabled_body", "Ensure that callback has WWMI filter_index of Shape Key Multiplier CS assigned"),
       AddConditional("mod_enabled_body", "multiplier_callback_condition"),
       AddIfClause("multiplier_callback_condition", "cs == 3381.4444", "multiplier_cs_body"),
       AddComment("multiplier_cs_body", "Skip handling of original Shape Key Multiplier CS call to modify dispatch_y value"),
       AddCommand("multiplier_cs_body", "handling = skip"),
       AddComment("multiplier_cs_body", "Run custom Shape Key Multiplier CS to apply dynamic per-character multipliers"),
       AddCommandTitle("multiplier_cs_body", "run = ", "multiply_shapekeys") >>

\* IniMaker.make_skeleton_override_group
make_skeleton_override_group(self) ==
    << SetGroupHeader(5, <<"; Skinning: Skeleton Override -------------------------", "\n", "\n">>),
       IniSection("vertex_limit_raise_vb0", Some("Increases size of UAV that stores VB0 to support more vertices than original"), "VertexLimitRaiseVB0", "TextureOverride", Some(self.mesh_object.vb0_hash)),
       AddSection("vertex_limit_raise_vb0", 5),
       AddCommand("vertex_limit_raise_vb0", "match_priority = 0"),
       IniSection("vertex_limit_raise_vb1", Some("Increases size of UAV that stores VB1 to support more vertices than original"), "VertexLimitRaiseVB1", "TextureOverride", Some(self.mesh_object.vb1_hash)),
       AddSection("vertex_limit_raise_vb1", 5),
       AddCommand("vertex_limit_raise_vb1", "match_priority = 0"),
       IniSection("register_mod", Some("Contacts WWMI to check whether installed version is compatible with our mod"), "RegisterMod", "CommandList", None),
       AddSection("register_mod", 5),
       AddComment("register_mod", "Pass mod info variables to WWMI"),
       AddCommand("register_mod", "$\\WWMIv1\\required_wwmi_version = $required_wwmi_version"),
       AddCommand("register_mod", "$\\WWMIv1\\object_guid = $object_guid"),
       AddComment("register_mod", "Pass mod info resources to WWMI"),
       AddCommand("register_mod", "Resource\\WWMIv1\\ModName = ref ResourceModName"),
       AddCommand("register_mod", "Resource\\WWMIv1\\ModAuthor = ref ResourceModAuthor"),
       AddCommand("register_mod", "Resource\\WWMIv1\\ModDesc = ref ResourceModDesc"),
       AddCommand("register_mod", "Resource\\WWMIv1\\ModLink = ref ResourceModLink"),
       AddCommand("register_mod", "Resource\\WWMIv1\\ModLogo = ref ResourceModLogo"),
       AddComment("register_mod", "Register mod in WWMI"),
       AddCommand("register_mod", "run = CommandList\\WWMIv1\\RegisterMod"),
       AddComment("register_mod", "Read mod_id assigned to our mod by WWMI, incompatible mod will get '$mod_id == -1' assigned"),
       AddCommand("register_mod", "$mod_id = $\\WWMIv1\\mod_id"),
       AddComment("register_mod", "Enable our mod if WWMI assigned valid $mod_id to it"),
       AddConditional("register_mod", "valid_mod_id_condition"),
       AddIfClause("valid_mod_id_condition", "$mod_id >= 0", "valid_mod_id_body"),
       AddCommand("valid_mod_id_body", "$mod_enabled = 1"),
       IniSection("merge_skeleton", Some("Update ResourceMergedSkeletonRW with bones data of current component"), "MergeSkeleton", "CommandList", None),
       AddSection("merge_skeleton", 5),
       AddComment("merge_skeleton", "Pass buffer that gonna store bone data of all components"),
       AddCommand("merge_skeleton", "cs-u6 = ResourceMergedSkeletonRW"),
       AddComment("merge_skeleton", "Run Skeleton Merger CS to merge bones of current component into ResourceMergedSkeletonRW"),
       AddCommand("merge_skeleton", "run = CustomShader\\WWMIv1\\SkeletonMerger"),
       IniSection("skin_mesh", Some("Pose entire mesh with merged skeleton using custom WWMI Pose CS"), "SkinMesh", "CommandList", None),
       AddSection("skin_mesh", 5),
       AddComment("skin_mesh", "Set vertex id to start skinning from, for output integrity we have to skin entire mesh every time"),
       AddCommand("skin_mesh", "$\\WWMIv1\\custom_vertex_offset = 0"),
       AddComment("skin_mesh", "Set number of vertices for skinning, for output integrity we have to skin entire mesh every time"),
       AddCommand("skin_mesh", "$\\WWMIv1\\custom_vertex_count = $mesh_vertex_count"),
       AddComment("skin_mesh", "Set arbitrary scale for our custom model"),
       AddCommand("skin_mesh", "$\\WWMIv1\\custom_mesh_scale = 1.0"),
       AddComment("skin_mesh", "Pass resources for Mesh Skinner CS"),
       AddCommand("skin_mesh", "cs-t3 = ResourceShapeKeyDataRef"),
       AddCommand("skin_mesh", "cs-t4 = ResourceBlendBuffer"),
       AddCommand("skin_mesh", "cs-t5 = ResourceVectorBuffer"),
       AddCommand("skin_mesh", "cs-t6 = ResourcePositionBuffer"),
       AddComment("skin_mesh", "Run Mesh Skinner CS"),
       AddCommand("skin_mesh", "run = CustomShader\\WWMIv1\\MeshSkinner"),
       IniSection("register_callback", Some("Handles WWMI callback fired on original Basis or ShapeKeyed Mesh Skinner CS call"), "MeshSkinnerCallback", "TextureOverride", Some(self.mesh_object.vb0_hash)),
       AddSection("register_callback", 5),
       AddCommand("register_callback", "match_priority = 0"),
       AddComment("register_callback", "Check if our mod is compatible with installed WWMI version (runs only once)"),
       AddConditional("register_callback", "mod_id_condition"),
       AddIfClause("mod_id_condition", "$mod_id == -1000", "mod_id_body"),
       AddComment("mod_id_body", "Pass required WWMI version along with mod metadata to WWMI"),
       AddCommand("mod_id_body", "run = CommandListRegisterMod"),
       AddConditional("register_callback", "mod_enabled_condition"),
       AddIfClause("mod_enabled_condition", "$mod_enabled", "mod_enabled_body"),
       AddComment("mod_enabled_body", "Ensure that callback has WWMI filter_index of Basis or ShapeKeyed Pose CS assigned"),
       AddConditional("mod_enabled_body", "pose_cs_condition"),
       AddIfClause("pose_cs_condition", "cs == 3381.1111 || cs == 3381.2222", "pose_cs_body"),
       AddComment("pose_cs_body", "Skip handling of original Pose CS call as we may need to modify dispatch_x value"),
       AddCommand("pose_cs_body", "handling = skip"),
       AddComment("pose_cs_body", "Check if it is a ShapeKeyed Pose CS call"),
       AddConditional("pose_cs_body", "pose_cs_condition"),
       AddIfClause("pose_cs_condition", "cs == 3381.2222", "shapekeyed_pose_cs_body"),
       AddComment("shapekeyed_pose_cs_body", "Store reference to shapekey data so it can be used with Basis Pose CS call as well"),
       AddCommand("shapekeyed_pose_cs_body", "ResourceShapeKeyDataRef = ref cs-t3") >>
    \o ForEach(Len(self.mesh_object.components), LAMBDA i4 :
        LET component_id == i4 - 1
            component == self.mesh_object.components[i4]
        IN  << AddComment("pose_cs_body", "Handle Component " \o Str(component_id)),
               AddConditional("pose_cs_body", "merge_skeleton_condition"),
               AddIfClause("merge_skeleton_condition", "THREAD_GROUP_COUNT_X == " \o component.dispatch_x, "merge_skeleton_body"),
               AddComment("merge_skeleton_body", "Pass variables for SkeletonMerger CS"),
               AddCommand("merge_skeleton_body", "$\\WWMIv1\\original_vertex_offset = " \o component.stock_component.vertex_offset),
               AddCommand("merge_skeleton_body", "$\\WWMIv1\\original_vertex_count = " \o component.stock_component.vertex_count),
               AddCommand("merge_skeleton_body", "$\\WWMIv1\\vg_offset = " \o component.stock_component.vg_offset),
               AddCommand("merge_skeleton_body", "$\\WWMIv1\\vg_count = " \o component.stock_component.vg_count),
               AddComment("merge_skeleton_body", "Merge bones of this components into ResourceMergedSkeleton"),
               AddCommand("merge_skeleton_body", "run = CommandListMergeSkeleton"),
               AddComment("merge_skeleton_body", "Pose entire mesh with custom pose CS"),
               AddCommand("merge_skeleton_body", "run = CommandListSkinMesh") >>)

\* IniMaker.make_buffer_resources_group
make_buffer_resources_group(self) ==
    << SetGroupHeader(6, <<"; Resources: Buffers -------------------------", "\n", "\n">>) >>
    \o ForEach(Len(self.buffers), LAMBDA i4 :
        LET buffer == self.buffers[i4]
            buffer_name == buffer.name
        IN  << IniSection("buffer_resource", None, buffer_name \o "Buffer", "Resource", None),
               AddSection("buffer_resource", 6),
               AddCommand("buffer_resource", "type = Buffer"),
               AddCommand("buffer_resource", "format = " \o buffer.format),
               AddCommand("buffer_resource", "filename = Meshes/" \o buffer_name \o ".buf") >>)

\* IniMaker.make_shape_keys_resources_group
make_shape_keys_resources_group(self) ==
    << SetGroupHeader(7, <<"; Resources: Shape Keys Override -------------------------", "\n", "\n">>),
       IniSection("shapekey_cb", Some("Stores dynamically calculated CB required to override original Shape Keys CS call"), "ShapeKeyCBRW", "Resource", None),
       AddSection("shapekey_cb", 7),
       AddComment("shapekey_cb", "Contains 128+128+8 values:"),
       AddComment("shapekey_cb", "* 128 uint: Shape Key offsets (continuous lists of vertex offsets)"),
       AddComment("shapekey_cb", "* 128 unorm: Shape Key values (range [0.0, 1.0])"),
       AddComment("shapekey_cb", "* 8 uint: Shape Key CS settings"),
       AddCommand("shapekey_cb", "type = RWBuffer"),
       AddCommand("shapekey_cb", "format = R32G32B32A32_UINT"),
       AddComment("shapekey_cb", "32 shapekey offsets, 32 shapekey values, 2 control flags"),
       AddCommand("shapekey_cb", "array = 66"),
       IniSection("custom_values", Some("Stores values of custom Shape Keys and overrides for original ones"), "CustomShapeKeyValuesRW", "Resource", None),
       AddSection("custom_values", 7),
       AddComment("custom_values", "Contains 128 values, zero is shifted by 1.0 to the right"),
       AddComment("custom_values", "Expected value range is [1.0, 2.0]"),
       AddComment("custom_values", "* '0.0' means 'no override'"),
       AddComment("custom_values", "* '1.0' means 'override with zero'"),
       AddComment("custom_values", "* '2.0' means 'override with one'"),
       AddCommand("custom_values", "type = RWBuffer"),
       AddCommand("custom_values", "format = R32G32B32A32_FLOAT"),
       AddComment("custom_values", "32 elements, 4 floats per element"),
       AddCommand("custom_values", "array = 32") >>

\* IniMaker.make_skeleton_resources_group
make_skeleton_resources_group(self) ==
    << SetGroupHeader(8, <<"; Resources: Skeleton Override -------------------------", "\n", "\n">>),
       IniSection("shapekey_data_ref", Some("Stores reference to dynamic data (xyz coords offsets) generated by Shape Key CS"), "ShapeKeyDataRef", "Resource", None),
       AddSection("shapekey_data_ref", 8),
       IniSection("merged_skeleton", Some("Stores merged skeleton consisting of bones from all components, allows to make VG weights global"), "MergedSkeletonRW", "Resource", None),
       AddSection("merged_skeleton", 8),
       AddComment("merged_skeleton", "Contains up to 256 bones"),
       AddCommand("merged_skeleton", "type = RWBuffer"),
       AddCommand("merged_skeleton", "format = R32G32B32A32_FLOAT"),
       AddComment("merged_skeleton", "256 bones, 3 elements per bone, 4 floats per element"),
       AddCommand("merged_skeleton", "array = 768") >>

\* IniMaker.make_autogenerated_group
make_autogenerated_group(self) ==
    LET msg == "This mod.ini was automatically generated by WWMI Tools Blender addon v" \o self.mod_info.wwmi_tools_version \o " and requires WWMI v" \o self.mod_info.required_wwmi_version.str \o "+ to function"
    IN  << SetGroupFooter(8,
              <<"\n",
                "; Autogenerated -------------------------", "\n", "\n",
                "; " \o msg, "\n",
                "; WWMI Link: https://gamebanana.com/mods/xxxxxx", "\n",
                "; WWMI GitHub: https://github.com/SpectrumQT/WWMI", "\n",
                "; WWMI Tools Link: https://gamebanana.com/mods/xxxxxx", "\n",
                "; WWMI Tools GitHub: https://github.com/SpectrumQT/WWMI_Tools", "\n",
                "; AGMG Modding Community Discord: https://discord.com/invite/agmg", "\n", "\n">>) >>

\* IniMaker.__post_init__ by ascending group index (a faulty variant)
post_init_ascending(self) ==
    << "make_mod_state_group", "make_mod_info_group", "make_draw_calls_group",
       "make_texture_resources_group" >>
    \o (IF self.shapekeys.custom_vertex_count > 0
        THEN <<"make_shape_keys_override_group">> ELSE <<>>)
    \o << "make_skeleton_override_group", "make_buffer_resources_group" >>
    \o (IF self.shapekeys.custom_vertex_count > 0
        THEN <<"make_shape_keys_resources_group">> ELSE <<>>)
    \o << "make_skeleton_resources_group", "make_autogenerated_group" >>

\* IniMaker.__post_init__ that makes the shape key overrides but never
\* their resources (a faulty variant)
post_init_unpaired(self) ==
    << "make_mod_state_group" >>
    \o (IF self.shapekeys.custom_vertex_count > 0
        THEN <<"make_shape_keys_override_group">> ELSE <<>>)
    \o << "make_skeleton_override_group", "make_draw_calls_group", "make_mod_info_group",
          "make_texture_resources_group", "make_buffer_resources_group",
          "make_skeleton_resources_group", "make_autogenerated_group" >>

\* IniMaker.__post_init__: the make_* methods it calls, in order
post_init(self) ==
    << "make_mod_state_group" >>
    \o (IF self.shapekeys.custom_vertex_count > 0
        THEN <<"make_shape_keys_override_group">> ELSE <<>>)
    \o << "make_skeleton_override_group", "make_draw_calls_group", "make_mod_info_group",
          "make_texture_resources_group", "make_buffer_resources_group" >>
    \o (IF self.shapekeys.custom_vertex_count > 0
        THEN <<"make_shape_keys_resources_group">> ELSE <<>>)
    \o << "make_skeleton_resources_group", "make_autogenerated_group" >>

\* IniMaker.build() that stamps its previous result again (a faulty variant)
build_restamped(self_ini) ==
    with_checksum(IF signed = NoText THEN ini_build(self_ini) ELSE signed)

\* IniMaker.build()
build(self_ini) == with_checksum(ini_build(self_ini))

-----------------------------------------------------------------------------
(***************************************************************************)
(* IniMaker: the inputs of an export and the construction of its builder   *)
(***************************************************************************)

\* fields of ModInfo a user types, as texts of characters
FieldTexts == [blank |-> <<>>, spaces |-> <<" ", " ">>, typed |-> <<"M", "y", " ", "M", "o", "d">>]

\* ModInfo records of an export: every field typed, and fields left blank or
\* of white space only next to a typed one
ModInfos ==
    LET version == [as_float |-> "0.7", str |-> "0.7.0"]
        Info(name, author, desc, link, logo) ==
            [wwmi_tools_version |-> "0.8.0", required_wwmi_version |-> version,
             mod_name |-> FieldTexts[name], mod_author |-> FieldTexts[author],
             mod_desc |-> FieldTexts[desc], mod_link |-> FieldTexts[link],
             mod_logo |-> [is_file |-> logo]]
    IN  { Info("typed", "typed", "typed", "typed", TRUE),
          Info("spaces", "typed", "blank", "spaces", FALSE) }

\* the sub-components of a merged component
SubComponents(k) ==
    [j \in 1..k |-> [name |-> "Component " \o Str(j - 1), index_count |-> Str(j) \o "00",
                     index_offset |-> Str(j - 1) \o "00"]]

\* component i of the mesh; custom is None or the number of its sub-components
Component(i, custom) ==
    [dispatch_x |-> Str(i) \o "7",
     stock_component |-> [index_offset |-> Str(i) \o "000", index_count |-> Str(i) \o "500",
                          vertex_offset |-> Str(i) \o "100", vertex_count |-> Str(i) \o "900",
                          vg_offset |-> Str(i) \o "0", vg_count |-> Str(i) \o "4"],
     custom_component |-> IF custom = None THEN None
                          ELSE Some([components |-> SubComponents(custom[1])])]

\* a component has no custom component, or one of two sub-components
Customs == {None, Some(2)}

\* the component lists of a mesh
ComponentLists ==
        UNION { {[i \in 1..n |-> Component(i, c[i])] : c \in [1..n -> Customs]}
                : n \in 0..MaxComponents }

\* buffers.items(): names and formats of the exported buffers, in dict order
BufferList ==
    << [name |-> "Index", format |-> "DXGI_FORMAT_R32_UINT"],
       [name |-> "Position", format |-> "DXGI_FORMAT_R32G32B32_FLOAT"],
       [name |-> "Blend", format |-> "DXGI_FORMAT_R8_UINT"],
       [name |-> "Vector", format |-> "DXGI_FORMAT_R8G8B8A8_SNORM"],
       [name |-> "Color", format |-> "DXGI_FORMAT_R8G8B8A8_UNORM"],
       [name |-> "TexCoord", format |-> "DXGI_FORMAT_R16G16_FLOAT"] >>

\* textures as get_textures collects them
TextureList ==
    [j \in 1..9 |-> [hash |-> "a1b2c3d" \o Str(j),
                     filename |-> "Components-0 t=a1b2c3d" \o Str(j) \o ".dds"]]

\* number of shapekeyed vertices of the custom model: none or some
ShapeKeyVertexCounts == {0, 9}

\* number of exported buffers: none or some
BufferCounts == {0, 2}

Makers ==
    { [mod_info |-> info,
       mesh_object |-> [original_index_count |-> "5000", custom_vertex_count |-> "1200",
                        vb0_hash |-> "0a1b2c3d", vb1_hash |-> "4e5f6a7b", components |-> comps],
       shapekeys |-> [custom_vertex_count |-> sk, offsets_hash |-> "11223344",
                      scale_hash |-> "55667788", checksum |-> "1234"],
       buffers |-> SubSeq(BufferList, 1, nb),
       textures |-> SubSeq(TextureList, 1, nt),
       comment_code |-> cc]
      : info \in ModInfos, comps \in ComponentLists, sk \in ShapeKeyVertexCounts,
        nb \in BufferCounts, nt \in 0..MaxTextures, cc \in BOOLEAN }

-----------------------------------------------------------------------------
(* Inputs of the stamp specification *)

Segments == {<<"a">>, <<"\n">>, <<"\r">>, <<" ">>, checksum_prefix}

RECURSIVE TextsOf(_)
TextsOf(n) ==
    IF n = 0 THEN {<<>>}
    ELSE LET shorter == TextsOf(n - 1)
         IN  shorter \cup {t \o s : t \in shorter, s \in Segments}

Texts == TextsOf(MaxSegs)

\* characters a manual edit may type
EditChars == {"a", "\n", "\r", " "}

\* where a manual edit may strike: the text, the prefix of the trailer, the
\* digits of the digest that vary, and the final line break
EditPositions ==
    LET n == Len(lines) + Len(checksum_prefix)
    IN  (1..n) \cup ((n + DigestLen - 3)..(n + DigestLen + 1))

NoEdit == [pos |-> 0, old |-> "", new |-> ""]

\* get_textures is not called
NoCollector ==
    /\ folder = <<>>
    /\ environ = [Path |-> None, texconv |-> None]
    /\ scanned = 0
    /\ textures = <<>>
    /\ conversions = <<>>
    /\ returned = None

\* no maker is constructed in the stamp specification
NoMaker == [comment_code |-> FALSE]

-----------------------------------------------------------------------------
(* The stamp specification: sign a text, write it, edit it, detect *)

InitStamp ==
    /\ maker = NoMaker
    /\ script = <<>>
    /\ pc = 0
    /\ locals = NoLocals
    /\ ini = IniBuilder([skip_comments |-> FALSE])
    /\ calls = <<>>
    /\ raised = "none"
    /\ builds = 0
    /\ lines \in Texts
    /\ signed = NoText
    /\ exists = FALSE
    /\ file = <<>>
    /\ verdict = "none"
    /\ hist = [kind |-> "none", edit |-> NoEdit]
    /\ lost = FALSE
    /\ NoCollector

\* IniMaker.build(): the text is signed
Sign ==
    /\ signed = NoText
    /\ signed' = with_checksum(lines)
    /\ UNCHANGED <<lines, exists, file, verdict, hist, lost>>
    /\ UNCHANGED makerVars
    /\ UNCHANGED collectorVars

\* the exporter writes the signed text; it asks is_ini_edited first when a
\* file is there and refuses to overwrite when the answer is True
Write ==
    /\ signed # NoText
    /\ LET answer == IF exists THEN is_ini_edited(file) ELSE "False"
       IN  IF answer = "False"
           THEN /\ file' = signed
                /\ exists' = TRUE
                /\ hist' = [kind |-> "signed", edit |-> NoEdit]
                /\ lost' = (lost \/ hist.kind = "edited")
                /\ verdict' = "none"
           ELSE /\ verdict' = answer
                /\ UNCHANGED <<file, exists, hist, lost>>
    /\ UNCHANGED <<lines, signed>>
    /\ UNCHANGED makerVars
    /\ UNCHANGED collectorVars

\* a user replaces one character of the generated file
ManualEdit(pos, c) ==
    /\ exists /\ hist.kind = "signed"
    /\ pos \in 1..Len(file)
    /\ c # file[pos]
    /\ file' = [file EXCEPT ![pos] = c]
    /\ hist' = [kind |-> "edited", edit |-> [pos |-> pos, old |-> file[pos], new |-> c]]
    /\ verdict' = "none"
    /\ UNCHANGED <<lines, signed, exists, lost>>
    /\ UNCHANGED makerVars
    /\ UNCHANGED collectorVars

\* a hand-authored file is put where the ini file will be written
Author(t) ==
    /\ ~exists /\ hist.kind = "none"
    /\ file' = t
    /\ exists' = TRUE
    /\ hist' = [kind |-> "authored", edit |-> NoEdit]
    /\ UNCHANGED <<lines, signed, verdict, lost>>
    /\ UNCHANGED makerVars
    /\ UNCHANGED collectorVars

\* is_ini_edited is run on the file on disk
Detect ==
    /\ exists /\ verdict = "none"
    /\ verdict' = is_ini_edited(file)
    /\ UNCHANGED <<lines, signed, exists, file, hist, lost>>
    /\ UNCHANGED makerVars
    /\ UNCHANGED collectorVars

NextStamp ==
    \/ Sign
    \/ Write
    \/ \E pos \in EditPositions, c \in EditChars : ManualEdit(pos, c)
    \/ \E t \in Texts : Author(t)
    \/ Detect

SpecStamp == InitStamp /\ [][NextStamp]_vars

-----------------------------------------------------------------------------
(* The export specification: construct an IniMaker, build, write, detect *)

\* a builder that is told to skip comments when comment_code is set
NewIni_inverted(self) ==
    [IniBuilder([skip_comments |-> self.comment_code])
        EXCEPT !.header = <<"; WWMI ALPHA-1 INI", "\n", "\n">>]

\* the builder as __post_init__ creates it, before the first make_* call
NewIni(self) ==
    [IniBuilder([skip_comments |-> ~self.comment_code])
        EXCEPT !.header = <<"; WWMI ALPHA-1 INI", "\n", "\n">>]

Init ==
    /\ maker \in Makers
    /\ script = <<>>
    /\ ini = NewIni(maker)
    /\ pc = 1
    /\ locals = NoLocals
    /\ calls = <<>>
    /\ raised = "none"
    /\ builds = 0
    /\ lines = <<>>
    /\ signed = NoText
    /\ exists = FALSE
    /\ file = <<>>
    /\ verdict = "none"
    /\ hist = [kind |-> "none", edit |-> NoEdit]
    /\ lost = FALSE
    /\ NoCollector

\* the next make_* call of __post_init__ is name: its calls reach the builder
Make(name, program) ==
    /\ pc <= Len(post_init(maker))
    /\ post_init(maker)[pc] = name
    /\ raised = "none"
    /\ LET st == Run(ini, calls, program)
       IN  ini' = st.ini /\ calls' = st.log /\ raised' = st.raised
    /\ pc' = pc + 1
    /\ UNCHANGED <<maker, script, locals, builds, lines, signed, exists, file, verdict, hist, lost>>
    /\ UNCHANGED collectorVars

MakeModState == Make("make_mod_state_group", make_mod_state_group(maker))
MakeShapeKeysOverride == Make("make_shape_keys_override_group", make_shape_keys_override_group(maker))
MakeSkeletonOverride == Make("make_skeleton_override_group", make_skeleton_override_group(maker))
MakeDrawCalls == Make("make_draw_calls_group", make_draw_calls_group(maker))
MakeModInfo == Make("make_mod_info_group", make_mod_info_group(maker))
MakeTextureResources == Make("make_texture_resources_group", make_texture_resources_group(maker))
MakeBufferResources == Make("make_buffer_resources_group", make_buffer_resources_group(maker))
MakeShapeKeysResources == Make("make_shape_keys_resources_group", make_shape_keys_resources_group(maker))
MakeSkeletonResources == Make("make_skeleton_resources_group", make_skeleton_resources_group(maker))
MakeAutogenerated == Make("make_autogenerated_group", make_autogenerated_group(maker))

\* IniMaker.build() on the constructed maker
Build ==
    /\ pc > Len(post_init(maker))
    /\ raised = "none"
    /\ builds < MaxBuilds
    /\ IF build_error(ini)
       THEN raised' = "build" /\ UNCHANGED <<lines, signed, builds>>
       ELSE /\ lines' = ini_build(ini)
            /\ signed' = build(ini)
            /\ builds' = builds + 1
            /\ UNCHANGED raised
    /\ UNCHANGED <<maker, script, pc, locals, ini, calls, exists, file, verdict, hist, lost>>
    /\ UNCHANGED collectorVars

Next ==
    \/ MakeModState
    \/ MakeShapeKeysOverride
    \/ MakeSkeletonOverride
    \/ MakeDrawCalls
    \/ MakeModInfo
    \/ MakeTextureResources
    \/ MakeBufferResources
    \/ MakeShapeKeysResources
    \/ MakeSkeletonResources
    \/ MakeAutogenerated
    \/ Build
    \/ Write
    \/ Detect

Spec == Init /\ [][Next]_vars

-----------------------------------------------------------------------------
(***************************************************************************)
(* The caller specification: a caller issues the calls of the builder one  *)
(* by one and builds.  The caller is a script that puts one section with   *)
(* a conditional block into a group, or IniMaker.__post_init__.            *)
(***************************************************************************)

\* condition expressions of the clauses of a script
Conditions == {"$x>0", "$x<0"}

\* the clause-adding calls a script issues on its block, in order: each adds
\* a clause with a condition or the clause without one
ClauseLists ==
    UNION {[1..n -> {None} \cup {Some(c) : c \in Conditions}] : n \in 0..MaxClauses}

\* the orders in which a script names its group in set_group_header,
\* add_section and set_group_footer
GroupCallOrders ==
    {o \in [1..3 -> {"set_group_header", "add_section", "set_group_footer"}] :
        \A i, j \in 1..3 : i # j => o[i] # o[j]}

\* kind and hash of the section of a script
SectionShapes ==
    { [section_type |-> "Resource", hash |-> None],
      [section_type |-> "Resource", hash |-> Some("0a1b2c3d")],
      [section_type |-> "TextureOverride", hash |-> Some("0a1b2c3d")],
      [section_type |-> "TextureOverride", hash |-> None] }

\* the command in the body of clause k
Letter(k) == <<"A", "B", "C", "D", "E", "F">>[k]

\* the calls of a script with the parameters p
ScriptCalls(p) ==
    LET GroupCall(name) ==
            CASE name = "set_group_header" -> SetGroupHeader(p.index, <<"; Hdr", "\n">>)
              [] name = "set_group_footer" -> SetGroupFooter(p.index, <<"; Ftr", "\n">>)
              [] name = "add_section" -> AddSection("foo", p.index)
        at == CHOOSE i \in 1..3 : p.order[i] = "add_section"
        before == [i \in 1..(at - 1) |-> GroupCall(p.order[i])]
        after == [i \in 1..(3 - at) |-> GroupCall(p.order[at + i])]
        Clause(k) ==
            << IF p.clauses[k] = None THEN AddElseClause("block", "clause_body")
               ELSE AddIfClause("block", p.clauses[k][1], "clause_body"),
               AddCommand("clause_body", Letter(k)) >>
            \o (IF p.nested /\ k = 1
                THEN << AddConditional("clause_body", "inner"),
                        AddIfClause("inner", "$x>0", "inner_body"),
                        AddCommand("inner_body", "N"),
                        AddCommand("clause_body", "Z") >>
                ELSE <<>>)
        body == << AddComment("foo", "c1"),
                   AddPersistentComment("foo", "p1"),
                   AddCommand("foo", "k1"),
                   AddConditional("foo", "block") >>
                \o Flatten([k \in 1..Len(p.clauses) |-> Clause(k)])
                \o << AddCommand("foo", "k2") >>
    IN  << IniSection("foo", Some("about Foo"), "Foo", p.shape.section_type, p.shape.hash) >>
        \o before
        \o (IF p.early THEN <<AddSection("foo", p.index)>> \o body
            ELSE body \o <<AddSection("foo", p.index)>>)
        \o after
        \o << IniSection("bar", None, "Bar", "Resource", None),
              AddSection("bar", p.index),
              AddCommand("bar", "type = Buffer") >>

\* parameters of the scripts
ScriptParameters ==
    [order : GroupCallOrders, early : BOOLEAN, clauses : ClauseLists, nested : BOOLEAN,
     shape : SectionShapes, index : {1}, skip_comments : BOOLEAN]

\* the makers whose construction is followed call by call
ScriptedMakers ==
    {m \in Makers : /\ m.comment_code
                    /\ m.mod_info.mod_logo.is_file
                    /\ Len(m.buffers) > 0
                    /\ Len(m.textures) = MaxTextures
                    /\ Len(m.mesh_object.components) = MaxComponents}

\* the method of IniMaker of that name, as its calls
MethodCalls(self, name) ==
    CASE name = "make_mod_state_group" -> make_mod_state_group(self)
      [] name = "make_shape_keys_override_group" -> make_shape_keys_override_group(self)
      [] name = "make_skeleton_override_group" -> make_skeleton_override_group(self)
      [] name = "make_draw_calls_group" -> make_draw_calls_group(self)
      [] name = "make_mod_info_group" -> make_mod_info_group(self)
      [] name = "make_texture_resources_group" -> make_texture_resources_group(self)
      [] name = "make_buffer_resources_group" -> make_buffer_resources_group(self)
      [] name = "make_shape_keys_resources_group" -> make_shape_keys_resources_group(self)
      [] name = "make_skeleton_resources_group" -> make_skeleton_resources_group(self)
      [] name = "make_autogenerated_group" -> make_autogenerated_group(self)

\* IniMaker.__post_init__ as the calls that reach the builder, in order (a
\* method binds each of its local variables before it reads it, so the
\* variables an earlier method has left bound are never read)
PostInitCalls(self) ==
    LET methods == post_init(self)
    IN  Flatten([k \in 1..Len(methods) |-> MethodCalls(self, methods[k])])

NoParameters ==
    [order |-> <<>>, early |-> FALSE, clauses |-> <<>>, nested |-> FALSE,
     shape |-> [section_type |-> "Resource", hash |-> None], index |-> 0,
     skip_comments |-> FALSE]

\* the callers: every script, and IniMaker for the scripted makers
Callers ==
    {[by |-> "script", p |-> p, maker |-> NoMaker, program |-> ScriptCalls(p)]
        : p \in ScriptParameters}
    \cup {[by |-> "IniMaker", p |-> NoParameters, maker |-> [comment_code |-> m.comment_code],
           program |-> PostInitCalls(m)] : m \in ScriptedMakers}

InitBuilder ==
    /\ script \in Callers
    /\ maker = script.maker
    /\ ini = (IF script.by = "IniMaker" THEN NewIni(script.maker)
              ELSE IniBuilder([skip_comments |-> script.p.skip_comments]))
    /\ pc = 1
    /\ locals = NoLocals
    /\ calls = <<>>
    /\ raised = "none"
    /\ builds = 0
    /\ lines = <<>>
    /\ signed = NoText
    /\ exists = FALSE
    /\ file = <<>>
    /\ verdict = "none"
    /\ hist = [kind |-> "none", edit |-> NoEdit]
    /\ lost = FALSE
    /\ NoCollector

\* the next call of the caller is a call of that name: it reaches the
\* builder; a call that raises ends the caller
Call(name) ==
    /\ pc <= Len(script.program)
    /\ raised = "none"
    /\ script.program[pc].call = name
    /\ LET st == Exec([ini |-> ini, env |-> locals, log |-> calls, raised |-> raised],
                      script.program[pc])
       IN  ini' = st.ini /\ locals' = st.env /\ calls' = st.log /\ raised' = st.raised
    /\ pc' = pc + 1
    /\ UNCHANGED <<maker, script, builds, lines, signed, exists, file, verdict, hist, lost>>
    /\ UNCHANGED collectorVars

CallSetGroupHeader == Call("set_group_header")
CallSetGroupFooter == Call("set_group_footer")
CallIniSection == Call("IniSection")
CallAddSection == Call("add_section")
CallAddComment == Call("add_comment")
CallAddPersistentComment == Call("add_persistent_comment")
CallAddCommand == Call("add_command")
CallAddCommandTitle == Call("add_command_title")
CallAddConditional == Call("add_conditional")
CallAddIfClause == Call("add_if_clause")
CallAddElseClause == Call("add_else_clause")

\* build() once the caller has issued its calls; a document that holds a
\* block without clauses is reported and not rendered
CallBuild ==
    /\ pc > Len(script.program)
    /\ raised = "none"
    /\ builds < MaxBuilds
    /\ IF build_error(ini)
       THEN raised' = "build" /\ UNCHANGED <<lines, signed, builds>>
       ELSE /\ lines' = ini_build(ini)
            /\ signed' = build(ini)
            /\ builds' = builds + 1
            /\ UNCHANGED raised
    /\ UNCHANGED <<maker, script, pc, locals, ini, calls, exists, file, verdict, hist, lost>>
    /\ UNCHANGED collectorVars

NextBuilder ==
    \/ CallSetGroupHeader
    \/ CallSetGroupFooter
    \/ CallIniSection
    \/ CallAddSection
    \/ CallAddComment
    \/ CallAddPersistentComment
    \/ CallAddCommand
    \/ CallAddCommandTitle
    \/ CallAddConditional
    \/ CallAddIfClause
    \/ CallAddElseClause
    \/ CallBuild

SpecBuilder == InitBuilder /\ [][NextBuilder]_vars

-----------------------------------------------------------------------------
(***************************************************************************)
(* The texture collector (texture_collector.py).  File names and paths    *)
(* are sequences of characters.                                            *)
(***************************************************************************)

\* str.lower() on the letters the file names hold
LowerChar(c) ==
    CASE c = "A" -> "a" [] c = "B" -> "b" [] c = "C" -> "c" [] c = "D" -> "d"
      [] c = "E" -> "e" [] c = "F" -> "f" [] c = "G" -> "g" [] c = "N" -> "n"
      [] c = "P" -> "p" [] c = "S" -> "s" [] c = "T" -> "t"
      [] OTHER -> c

lower(s) == [i \in 1..Len(s) |-> LowerChar(s[i])]

\* s.endswith(suffix)
endswith(s, suffix) ==
    /\ Len(s) >= Len(suffix)
    /\ SubSeq(s, Len(s) - Len(suffix) + 1, Len(s)) = suffix

\* the tuple of suffixes of line 21; the last one has no dot
ImageSuffixes ==
    { <<".", "d", "d", "s">>, <<".", "j", "p", "g">>, <<".", "p", "n", "g">>,
      <<".", "t", "g", "a">>, <<".", "j", "p", "e", "g">>, <<".", "t", "i", "f", "f">>,
      <<"t", "i", "f">> }

\* the character classes \d and [a-f0-9]
DecimalDigits == {"0", "1", "2", "3", "4", "5", "6", "7", "8", "9"}
LowerHexDigits == DecimalDigits \cup {"a", "b", "c", "d", "e", "f"}

\* a literal of a pattern, character by character
Literal(s) == [i \in 1..Len(s) |-> {s[i]}]

\* the group ([a-f0-9]{8}) of both patterns
HashGroup == [i \in 1..8 |-> LowerHexDigits]

\* what stands between the two .* of the pattern of line 23: t= and the group
NewFormat == Literal(<<"t", "=">>) \o HashGroup

\* the same for the old format of line 27: component_\d-ps-t\d- and the group
OldFormat ==
    Literal(<<"c", "o", "m", "p", "o", "n", "e", "n", "t", "_">>) \o <<DecimalDigits>>
    \o Literal(<<"-", "p", "s", "-", "t">>) \o <<DecimalDigits>> \o Literal(<<"-">>)
    \o HashGroup

\* the pattern matches the characters of s from position p on
MatchAt(s, p, pattern) ==
    /\ p + Len(pattern) - 1 <= Len(s)
    /\ \A k \in 1..Len(pattern) : s[p + k - 1] \in pattern[k]

\* re.compile(".*" + pattern + ".*").findall(s): a dot matches no line break,
\* so every line of s with a match yields one result, the group of the last
\* match of the line, which the greedy leading .* reaches
findall(pattern, s) ==
    LET at == {p \in 1..Len(s) : MatchAt(s, p, pattern)}
        LineOf(p) == Cardinality({q \in 1..(p - 1) : s[q] = "\n"})
        last == {p \in at : \A q \in at : LineOf(q) = LineOf(p) => q <= p}
        Rank(p) == Cardinality({q \in last : q <= p})
        group(p) == SubSeq(s, p + Len(pattern) - 8, p + Len(pattern) - 1)
    IN  [r \in 1..Cardinality(last) |-> group(CHOOSE p \in last : Rank(p) = r)]

\* os.path.splitext(name)[0] for a name without directory: the name up to
\* its last dot, unless only dots stand before that dot
splitext_root(name) ==
    LET dots == {i \in 1..Len(name) : name[i] = "."}
        dot == CHOOSE i \in dots : \A j \in dots : j <= i
    IN  IF dots = {} THEN name
        ELSE IF \E i \in 1..(dot - 1) : name[i] # "." THEN SubSeq(name, 1, dot - 1)
        ELSE name

\* sub in s, for strings
Contains(s, sub) ==
    \E p \in 1..(Len(s) - Len(sub) + 1) : SubSeq(s, p, p + Len(sub) - 1) = sub

\* lines 20-30: the hash of a file name that is collected, None for a file
\* that is skipped
texture_hash(texname) ==
    IF ~\E suffix \in ImageSuffixes : endswith(texname, suffix) THEN None
    ELSE LET result == findall(NewFormat, texname)
         IN  IF Len(result) = 1 THEN Some(result[1])
             ELSE LET old == findall(OldFormat, texname)
                  IN  IF Len(old) = 1 THEN Some(old[1]) ELSE None

\* lines 35-67: how the attempt to convert can end.  A missing variable
\* raises KeyError; with texconv on the Path the converter is started and
\* converts, fails, or cannot be started; otherwise the walrus of line 50
\* binds a truth value, and its endswith raises AttributeError.  Every
\* exception is caught and printed.
ConversionOutcomes(env) ==
    IF env.Path = None THEN {"KeyError"}
    ELSE IF Contains(env.Path[1], <<"t", "e", "x", "c", "o", "n", "v">>)
         THEN {"converted", "failed", "OSError"}
    ELSE IF env.texconv = None THEN {"KeyError"}
    ELSE {"AttributeError"}

\* a dict that forgets no entry: a second Texture of a hash is kept next to
\* the first (a faulty variant)
dict_set_appending(d, key, value) == Append(d, value)

\* textures[texture_hash] = Texture(...): the value of a key that is there
\* is replaced where it stands, a new key joins the end
dict_set(d, key, value) ==
    IF \E i \in 1..Len(d) : d[i].hash = key
    THEN [i \in 1..Len(d) |-> IF d[i].hash = key THEN value ELSE d[i]]
    ELSE Append(d, value)

-----------------------------------------------------------------------------
(* Inputs of the collector specification *)

\* at most this many entries are in the folder
MaxFiles == 2

\* the two hashes of the file names, the second one in capitals, and a
\* hash one digit short
HashA == <<"0", "a", "1", "b", "2", "c", "3", "d">>
HashB == <<"4", "E", "5", "F", "6", "A", "7", "B">>
HashShort == <<"0", "a", "1", "b", "2", "c", "3">>

\* a file name put together from what it is to show: which format leads to
\* the hash, which digits follow, and how the name ends
FileName(shape) ==
    (CASE shape.format = "new" -> <<"b", "o", "d", "y", " ", "t", "=">>
       [] shape.format = "old" ->
            <<"c", "o", "m", "p", "o", "n", "e", "n", "t", "_", "0", "-", "p", "s", "-", "t", "1", "-">>
       [] shape.format = "none" -> <<"b", "o", "d", "y">>)
    \o (CASE shape.digits = "A" -> HashA
          [] shape.digits = "B" -> HashB
          [] shape.digits = "short" -> HashShort
          [] shape.digits = "none" -> <<>>)
    \o (CASE shape.suffix = "dds" -> <<".", "d", "d", "s">>
          [] shape.suffix = "PNG" -> <<".", "P", "N", "G">>
          [] shape.suffix = "tif" -> <<"m", "o", "t", "i", "f">>
          [] shape.suffix = "txt" -> <<".", "t", "x", "t">>)

\* the shapes of the names of a folder: each hash under both formats and
\* with several suffixes, a hash too short, names without a hash, and names
\* that end like no image
FileShapes ==
    LET Shape(format, digits, suffix) == [format |-> format, digits |-> digits, suffix |-> suffix]
    IN  { Shape("new", "A", "dds"), Shape("new", "A", "PNG"), Shape("new", "A", "txt"),
          Shape("new", "B", "dds"), Shape("new", "B", "tif"), Shape("new", "short", "PNG"),
          Shape("old", "A", "PNG"), Shape("old", "B", "dds"), Shape("old", "B", "txt"),
          Shape("old", "short", "dds"),
          Shape("none", "none", "dds"), Shape("none", "none", "PNG"),
          Shape("none", "none", "tif"), Shape("none", "none", "txt") }

\* the entries a folder can hold: the name, and what the name was made of
DirEntries == {[name |-> FileName(shape), shape |-> shape] : shape \in FileShapes}

\* what scandir can yield: entries of different names in any order
RECURSIVE FoldersOf(_)
FoldersOf(n) ==
    IF n = 0 THEN {<<>>}
    ELSE LET shorter == FoldersOf(n - 1)
         IN  shorter \cup {Append(f, e) : f \in shorter, e \in DirEntries}

Folders == {f \in FoldersOf(MaxFiles) : \A i, j \in 1..Len(f) : f[i].name = f[j].name => i = j}

\* os.environ: Path missing, without texconv or with it; texconv missing or set
Environs ==
    LET texconv_exe == Some(<<"t", "c", ".", "e", "x", "e">>)
    IN  { [Path |-> None, texconv |-> texconv_exe],
          [Path |-> Some(<<"/", "b", "i", "n">>), texconv |-> None],
          [Path |-> Some(<<"/", "b", "i", "n">>), texconv |-> texconv_exe],
          [Path |-> Some(<<"/", "b", "i", "n", ":", "/", "t", "e", "x", "c", "o", "n", "v">>),
           texconv |-> None] }

-----------------------------------------------------------------------------
(* The collector specification: get_textures, one entry of the folder at a *)
(* time, then its return                                                    *)

InitCollector ==
    /\ folder \in Folders
    /\ environ \in Environs
    /\ scanned = 0
    /\ textures = <<>>
    /\ conversions = <<>>
    /\ returned = None
    /\ maker = NoMaker
    /\ script = <<>>
    /\ pc = 0
    /\ locals = NoLocals
    /\ ini = IniBuilder([skip_comments |-> FALSE])
    /\ calls = <<>>
    /\ raised = "none"
    /\ builds = 0
    /\ lines = <<>>
    /\ signed = NoText
    /\ exists = FALSE
    /\ file = <<>>
    /\ verdict = "none"
    /\ hist = [kind |-> "none", edit |-> NoEdit]
    /\ lost = FALSE

\* lines 29-30: the entry has no image suffix or shows no hash: continue
Skip ==
    /\ scanned < Len(folder)
    /\ returned = None
    /\ texture_hash(lower(folder[scanned + 1].name)) = None
    /\ scanned' = scanned + 1
    /\ UNCHANGED <<folder, environ, textures, conversions, returned>>
    /\ UNCHANGED makerVars
    /\ UNCHANGED stampVars

\* lines 31-75 for a dds file: it is collected under its lower-cased name
CollectDds ==
    /\ scanned < Len(folder)
    /\ returned = None
    /\ LET texfile == folder[scanned + 1]
           texname == lower(texfile.name)
           found == texture_hash(texname)
       IN  /\ found # None
           /\ endswith(texname, <<".", "d", "d", "s">>)
           /\ textures' = dict_set(textures, found[1],
                                   [hash |-> found[1], path |-> texfile.name, filename |-> texname])
    /\ scanned' = scanned + 1
    /\ UNCHANGED <<folder, environ, conversions, returned>>
    /\ UNCHANGED makerVars
    /\ UNCHANGED stampVars

\* lines 31-75 for another image: the conversion is tried, and however it
\* ends the file is collected under its name with the suffix .dds
CollectConverted(outcome) ==
    /\ scanned < Len(folder)
    /\ returned = None
    /\ LET texfile == folder[scanned + 1]
           texname == lower(texfile.name)
           found == texture_hash(texname)
       IN  /\ found # None
           /\ ~endswith(texname, <<".", "d", "d", "s">>)
           /\ conversions' = Append(conversions, [path |-> texfile.name, outcome |-> outcome])
           /\ textures' = dict_set(textures, found[1],
                                   [hash |-> found[1], path |-> texfile.name,
                                    filename |-> splitext_root(texname) \o <<".", "d", "d", "s">>])
    /\ scanned' = scanned + 1
    /\ UNCHANGED <<folder, environ, returned>>
    /\ UNCHANGED makerVars
    /\ UNCHANGED stampVars

\* line 77: the folder is through, the values of the dict are returned
Return ==
    /\ scanned = Len(folder)
    /\ returned = None
    /\ returned' = Some(textures)
    /\ UNCHANGED <<folder, environ, scanned, textures, conversions>>
    /\ UNCHANGED makerVars
    /\ UNCHANGED stampVars

NextCollector ==
    \/ Skip
    \/ CollectDds
    \/ \E outcome \in ConversionOutcomes(environ) : CollectConverted(outcome)
    \/ Return

SpecCollector == InitCollector /\ [][NextCollector]_vars

-----------------------------------------------------------------------------
(* Properties of the checksum stamp *)

\* the file on disk, read as is_ini_edited reads it
data == readlines(file)

\* the last line of the file carries the fixed prefix once trimmed
TrailerMatches == data # <<>> /\ startswith(strip(data[Len(data)]), checksum_prefix)

\* the text ends with a line break, as every document IniMaker builds does
EndsWithNewline(text) == text # <<>> /\ text[Len(text)] = "\n"

\* the last line of a text, read as is_ini_edited reads it
LastLine(text) == LET d == readlines(text) IN IF d = <<>> THEN <<>> ELSE d[Len(d)]

\* the trailer with_checksum is to append for the text
Trailer(text) == checksum_prefix \o sha256(text) \o <<"\n">>

(* C1: right after signing, the edit detection run on the written file (read
   back into lines as is_ini_edited reads it) returns False, for every text
   handed to with_checksum that ends with a line break, as the documents
   build() assembles do. *)
C1_RoundTripStable ==
    (hist.kind = "signed" /\ verdict # "none" /\ EndsWithNewline(lines))
        => verdict = "False"

(* C2: replacing one character before the trailer line of a signed text by a
   different character makes the edit detection return True. *)
C2_TamperDetected ==
    ( /\ EndsWithNewline(lines)
      /\ hist.kind = "edited"
      /\ hist.edit.pos <= Len(lines)
      /\ verdict # "none" )
    => verdict = "True"

(* C3: a file with at least one line whose trimmed last line does not start
   with the fixed prefix is reported as not edited, whatever its other lines
   hold. *)
C3_FailOpenOnForeignTrailer ==
    (verdict # "none" /\ data # <<>> /\ ~TrailerMatches) => verdict = "False"

C3_Witness ==
    /\ verdict = "False"
    /\ hist.kind = "edited"
    /\ Len(data) >= 2
    /\ ~TrailerMatches

(* C4: on a file with zero lines the edit detection returns False as a normal
   result. *)
C4_EmptyFileReturnsFalse ==
    (verdict # "none" /\ data = <<>>) => verdict = "False"

(* C5: when the last line carries the fixed prefix, the edit detection returns
   True exactly when the hash recomputed over all lines but the last differs
   from the hash value the last line claims, and False exactly when the two
   are equal. *)
C5_TrueIffHashDiffers ==
    (verdict # "none" /\ TrailerMatches) =>
        LET claimed == replace(strip(data[Len(data)]), checksum_prefix)
            recomputed == sha256(join(SubSeq(data, 1, Len(data) - 1)))
        IN  /\ verdict \in {"True", "False"}
            /\ (verdict = "True") <=> (recomputed # claimed)

C5_Witness ==
    /\ TrailerMatches
    /\ verdict = "True"
    /\ hist.kind = "edited"
    /\ hist.edit.pos <= Len(lines)

(* C6: with_checksum returns the input text unchanged, followed by exactly one
   trailer: the prefix, the 64 hexadecimal characters of the hash of the text
   exactly as given, and a line break. *)
C6_SignAppendsOneTrailer ==
    signed # NoText =>
        LET n == Len(lines)
            p == Len(checksum_prefix)
            digest == SubSeq(signed, n + p + 1, n + p + DigestLen)
        IN  /\ Len(signed) = n + p + DigestLen + 1
            /\ SubSeq(signed, 1, n) = lines
            /\ SubSeq(signed, n + 1, n + p) = checksum_prefix
            /\ \A i \in 1..DigestLen : \E k \in 1..16 : digest[i] = HexDigits[k]
            /\ digest = sha256(lines)
            /\ signed[Len(signed)] = "\n"

C6_Witness ==
    /\ signed # NoText
    /\ Len(lines) >= 2
    /\ lines[1] = " "
    /\ lines[Len(lines)] = " "

(* C7 as stated: for every input text the last line of the signed text is the
   trailer alone, prefix and digest and nothing else. *)
C7_TrailerIsLastLine_AnyText ==
    signed # NoText => LastLine(signed) = Trailer(lines)

(* C7 as amended: for every input text that is empty or ends with a line break
   the last line of the signed text is the trailer alone. *)
C7_TrailerIsLastLine ==
    (signed # NoText /\ (lines = <<>> \/ EndsWithNewline(lines)))
        => LastLine(signed) = Trailer(lines)

C7_Witness ==
    /\ signed # NoText
    /\ EndsWithNewline(lines)
    /\ Len(readlines(signed)) >= 2

(* C8: a generated file that was manually edited afterwards is never silently
   overwritten by a caller that asks is_ini_edited before each overwrite and
   refuses when it answers True. *)
C8_EditedFileNeverOverwritten ==
    EndsWithNewline(lines) => ~lost

-----------------------------------------------------------------------------
(* Properties of the builder and of IniMaker *)

\* the elements of a finite set of numbers in ascending order
Ascending(S) ==
    [r \in 1..Cardinality(S) |-> CHOOSE x \in S : Cardinality({y \in S : y < x}) = r - 1]

\* the group numbers in the order the calls of IniMaker first name them
Registered ==
    LET first == SelectSeq([k \in 1..Len(calls) |-> k],
                           LAMBDA k : \A j \in 1..(k - 1) : calls[j].index # calls[k].index)
    IN  [r \in 1..Len(first) |-> calls[first[r]].index]

\* the order of registration the source shows
RegisteredBySource ==
    IF maker.shapekeys.custom_vertex_count > 0
    THEN <<0, 4, 5, 2, 1, 3, 6, 7, 8>>
    ELSE <<0, 5, 2, 1, 3, 6, 8>>

\* the line that shows a group in a document: the first line of its header
GroupMark(index) == ini.groups[GroupPos(ini, index)].header[1]

\* the line that shows a section in a document: its title line, or the first
\* line it renders when its kind has no title (none when it renders no line)
SectionMark(id) ==
    LET section == ini.heap[id]
        text == RenderSection(ini, id)
    IN  IF section.section_type \notin {"Constants", "Present"}
        THEN <<"[" \o get_section_title(section) \o "]">>
        ELSE IF Len(text) >= 2 THEN <<text[2]>> ELSE <<>>

\* the add_section calls of the log that name the group, in call order
SectionCalls(index) ==
    SelectSeq(calls, LAMBDA c : c.call = "add_section" /\ c.index = index)

\* the marks a document must show, in order: the groups by ascending number,
\* each followed by its sections in the order of their add_section calls
ExpectedMarks ==
    LET order == Ascending({calls[k].index : k \in 1..Len(calls)})
        OfGroup(index) ==
            LET added == SectionCalls(index)
            IN  <<GroupMark(index)>>
                \o Flatten([k \in 1..Len(added) |-> SectionMark(added[k].section)])
    IN  Flatten([r \in 1..Len(order) |-> OfGroup(order[r])])

\* the lines of a document that are among the marks, in document order
RenderedMarks(text, marks) ==
    LET shown == {marks[k] : k \in 1..Len(marks)}
    IN  SelectSeq(text, LAMBDA c : c \in shown)

(* C9: a second IniMaker.build() on a maker that was not changed since the
   first returns the same signed text from the same rendered text, and no
   build() changes the groups, sections or bodies of the builder. *)
C9_BuildIsIdempotent ==
    [][(builds' = builds + 1) =>
          /\ ini' = ini
          /\ (builds >= 1 => (signed' = signed /\ lines' = lines))]_vars

C9_Witness ==
    /\ builds >= 2
    /\ Len(maker.mesh_object.components) >= 1
    /\ signed = with_checksum(lines)

(* C10: IniMaker registers its groups in the order 0, 4, 5, 2, 1, 3, 6, 7, 8
   (4 and 7 only with shape keys); the built document shows the groups by
   strictly ascending number, and inside each group its sections in the order
   they were added, every one exactly once. *)
C10_RenderOrder ==
    builds >= 1 =>
        /\ Registered = RegisteredBySource
        /\ LET expected == ExpectedMarks
           IN  RenderedMarks(lines, expected) = expected

C10_Witness ==
    /\ builds >= 1
    /\ Len(Registered) = 9
    /\ Registered # Ascending({Registered[k] : k \in 1..Len(Registered)})
    /\ \E g \in 1..Len(ini.groups) : Len(ini.groups[g].sections) >= 3
    /\ Len(maker.textures) >= 1

\* the symbols of a text
Symbols(text) == {text[i] : i \in 1..Len(text)}

\* the lines a body is to show, in the order they were added, blocks
\* entered clause by clause: every command and persistent comment, and
\* the other comments unless they are suppressed
RECURSIVE Kept(_, _, _)
Kept(b, body, suppressed) ==
    LET entries == b.heap[body].entries
        OfEntry(e) ==
            CASE e.t = "comment" -> IF suppressed THEN <<>> ELSE <<"; " \o e.text>>
              [] e.t = "persistent_comment" -> <<"; " \o e.text>>
              [] e.t = "command" -> <<e.text>>
              [] e.t = "conditional" ->
                   Flatten([k \in 1..Len(b.heap[e.ref].clauses) |->
                               Kept(b, b.heap[e.ref].clauses[k].body, suppressed)])
    IN  Flatten([i \in 1..Len(entries) |-> OfEntry(entries[i])])

\* the same for a document: groups ascending, sections as added, each with
\* its leading comment first
KeptOfDocument(b, suppressed) ==
    LET gs == GroupsAscending(b)
        OfSection(id) ==
            (IF b.heap[id].comment = None \/ suppressed THEN <<>>
             ELSE <<"; " \o b.heap[id].comment[1]>>)
            \o Kept(b, b.heap[id].body, suppressed)
    IN  Flatten([r \in 1..Len(gs) |->
                   Flatten([i \in 1..Len(gs[r].sections) |-> OfSection(gs[r].sections[i])])])

\* the comment lines suppression is to drop: the comments of all bodies
\* that are not persistent, and the leading comments of the sections
Droppable(b) ==
    UNION { LET o == b.heap[id]
            IN  CASE o.kind = "body" ->
                       {"; " \o o.entries[i].text :
                           i \in {j \in 1..Len(o.entries) : o.entries[j].t = "comment"}}
                  [] o.kind = "section" ->
                       IF o.comment = None THEN {} ELSE {"; " \o o.comment[1]}
                  [] o.kind = "conditional" -> {}
            : id \in Attached(b) }

(* C11: with comment_code = false the built document shows none of the
   comments that are not persistent, of no section body, no clause body at
   any depth and no section head, and shows every persistent comment and
   every command in the order they were added; with comment_code = true it
   shows all comments as well, in the order they were added. *)
C11_CommentSuppression ==
    builds >= 1 =>
        LET suppressed == ~maker.comment_code
            expected == KeptOfDocument(ini, suppressed)
            shown == Symbols(expected)
        IN  /\ SelectSeq(lines, LAMBDA c : c \in shown) = expected
            /\ suppressed => Droppable(ini) \cap Symbols(lines) = {}
            /\ ~suppressed => Droppable(ini) \subseteq Symbols(lines)

C11_Witness ==
    /\ builds >= 1
    /\ ~maker.comment_code
    /\ Len(maker.mesh_object.components) >= 1
    /\ strip(maker.mod_info.mod_name) = <<>>
    /\ "; data = \"Unknown Mod Name\"" \in Symbols(lines)
    /\ "; Handle Component 0" \in Droppable(ini)
    /\ "run = CommandListSkinMesh" \in Symbols(lines)

-----------------------------------------------------------------------------
(* Properties of the builder under any caller *)

\* the line that opens clause k of a block
ClauseHead(clauses, k) ==
    IF clauses[k].condition = None THEN "else"
    ELSE IF k = 1 THEN "if " \o clauses[k].condition[1]
    ELSE "else if " \o clauses[k].condition[1]

\* the if / else if / else / endif lines a body is to show, blocks inside
\* a clause closed before the clause ends
RECURSIVE Skeleton(_, _)
Skeleton(b, body) ==
    LET entries == b.heap[body].entries
        OfBlock(id) ==
            LET clauses == b.heap[id].clauses
            IN  Flatten([k \in 1..Len(clauses) |->
                            <<ClauseHead(clauses, k)>> \o Skeleton(b, clauses[k].body)])
                \o <<"endif">>
    IN  Flatten([i \in 1..Len(entries) |->
                   IF entries[i].t = "conditional" THEN OfBlock(entries[i].ref) ELSE <<>>])

\* the same for a document
SkeletonOfDocument(b) ==
    LET gs == GroupsAscending(b)
    IN  Flatten([r \in 1..Len(gs) |->
                   Flatten([i \in 1..Len(gs[r].sections) |->
                               Skeleton(b, b.heap[gs[r].sections[i]].body)])])

\* what the block of a script is to show, from the calls of the script:
\* the clauses in call order, each with its command, then one endif
ExpectedBlock(p) ==
    LET clauses == [k \in 1..Len(p.clauses) |-> [condition |-> p.clauses[k]]]
    IN  Flatten([k \in 1..Len(clauses) |->
                   <<ClauseHead(clauses, k), Letter(k)>>
                   \o (IF p.nested /\ k = 1 THEN <<"if $x>0", "N", "endif", "Z">> ELSE <<>>)])
        \o <<"endif">>

\* the lines of a text that belong to a block of a script
BlockLines(text) ==
    LET marks == {"else", "endif", "N", "Z"}
                 \cup {"if " \o c : c \in Conditions}
                 \cup {"else if " \o c : c \in Conditions}
                 \cup {Letter(k) : k \in 1..MaxClauses}
    IN  SelectSeq(text, LAMBDA c : c \in marks)

(* C12: a block whose clauses were added in the order c1..cn shows, in the
   built document, 'if c1', body 1, 'else if c2', body 2, ..., 'else', body n
   when the last clause has no condition, then one 'endif': the clauses in
   call order, none merged, dropped or moved even when conditions are equal,
   and a block inside a clause closed before the clause ends. *)
C12_ConditionalRendering ==
    builds >= 1 =>
        /\ LET expected == SkeletonOfDocument(ini)
               shown == Symbols(expected)
           IN  SelectSeq(lines, LAMBDA c : c \in shown) = expected
        /\ (script.by = "script" /\ script.p.clauses[1] # None)
               => BlockLines(lines) = ExpectedBlock(script.p)

C12_Witness ==
    /\ builds >= 1
    /\ script.by = "script"
    /\ script.p.nested
    /\ Len(script.p.clauses) >= 3
    /\ script.p.clauses[1] = Some("$x>0")
    /\ script.p.clauses[2] = Some("$x>0")
    /\ script.p.clauses[3] = None
    /\ BlockLines(lines) =
          <<"if $x>0", "A", "if $x>0", "N", "endif", "Z", "else if $x>0", "B", "else", "C", "endif">>

\* the conditional blocks of the heap
Blocks(b) == {id \in 1..Len(b.heap) : b.heap[id].kind = "conditional"}

(* C13: after any sequence of clause-adding calls on a block only its last
   clause may lack a condition (so at most one clause does); no document is
   rendered that holds a block without clauses, and every block
   IniMaker.__post_init__ creates has a clause when __post_init__ ends. *)
C13_ClauseInvariant ==
    /\ \A id \in Blocks(ini) :
          \A k \in 1..(Len(ini.heap[id].clauses) - 1) : ini.heap[id].clauses[k].condition # None
    /\ builds >= 1 =>
          \A id \in Blocks(ini) \cap Attached(ini) : ini.heap[id].clauses # <<>>
    /\ (script.by = "IniMaker" /\ pc > Len(script.program)) =>
          /\ raised = "none"
          /\ Blocks(ini) # {}
          /\ \A id \in Blocks(ini) : ini.heap[id].clauses # <<>>

C13_Witness ==
    /\ raised = "add_if_clause"
    /\ \E id \in Blocks(ini) :
          LET clauses == ini.heap[id].clauses
          IN  /\ Len(clauses) >= 2
              /\ clauses[Len(clauses)].condition = None
              /\ clauses[1].condition # None

\* the sections of the heap
Sections(b) == {id \in 1..Len(b.heap) : b.heap[id].kind = "section"}

\* the call is the construction of a TextureOverride section without hash
Hashless(c) == c.call = "IniSection" /\ c.section_type = "TextureOverride" /\ c.hash = None

(* C15: the construction of a TextureOverride section without a hash is
   reported to the caller by that very call: no such section comes to exist,
   none is added and nothing is built; and every TextureOverride section
   IniMaker.__post_init__ constructs is given a hash, so that it is never
   reported to. *)
C15_HashRequired ==
    /\ \A id \in Sections(ini) :
          ini.heap[id].section_type = "TextureOverride" => ini.heap[id].hash # None
    /\ \A k \in 1..(pc - 1) :
          Hashless(script.program[k]) =>
              /\ k = pc - 1
              /\ raised = "IniSection"
              /\ builds = 0
    /\ raised = "IniSection" => Hashless(script.program[pc - 1])
    /\ script.by = "IniMaker" =>
          /\ raised = "none"
          /\ \A k \in 1..Len(script.program) : ~Hashless(script.program[k])

C15_Witness ==
    /\ raised = "IniSection"
    /\ script.p.shape = [section_type |-> "TextureOverride", hash |-> None]
    /\ pc = 2
    /\ Sections(ini) = {}
    /\ builds = 0

-----------------------------------------------------------------------------
(* Properties of the documents of IniMaker *)

\* the title line of a section
TitleLine(section) == "[" \o get_section_title(section) \o "]"

\* number of times a symbol occurs in a text
Occurrences(text, c) == Len(SelectSeq(text, LAMBDA x : x = c))

(* C14: no two sections IniMaker adds have the same bracketed title, for
   every number of components, textures and buffers and with and without
   shape keys; a Resource and a TextureOverride of one name (Texture<i>) are
   two titles.  Every title line stands once in the built document. *)
C14_TitlesUnique ==
    /\ raised = "none"
    /\ \A i, j \in Added(ini) :
          i # j => get_section_title(ini.heap[i]) # get_section_title(ini.heap[j])
    /\ builds >= 1 =>
          \A id \in Added(ini) :
              ini.heap[id].section_type \in {"Constants", "Present"}
                  \/ Occurrences(lines, TitleLine(ini.heap[id])) = 1

C14_Witness ==
    /\ builds >= 1
    /\ Len(maker.textures) >= 1
    /\ Len(maker.mesh_object.components) >= 1
    /\ Len(maker.buffers) >= 2
    /\ maker.shapekeys.custom_vertex_count > 0
    /\ Occurrences(lines, "[ResourceTexture0]") = 1
    /\ Occurrences(lines, "[TextureOverrideTexture0]") = 1
    /\ Occurrences(lines, "[TextureOverrideComponent0]") = 1


-----------------------------------------------------------------------------
(* Properties of the rendered sections and groups *)

\* the hash line of a section that has a hash
HashLine(section) == "hash = " \o section.hash[1]

\* the TextureOverride sections of the document
Overrides(b) == {id \in Added(b) : b.heap[id].section_type = "TextureOverride"}

(* C16: in the built document the title line of every TextureOverride
   section is followed at once by its line 'hash = <hash>', before any line
   of its body, and a hash line stands nowhere else: no section of another
   kind shows one, with or without a hash given to it. *)
C16_HashAfterTitle ==
    builds >= 1 =>
        LET titles == {TitleLine(ini.heap[id]) : id \in Overrides(ini)}
            hashes == {HashLine(ini.heap[id]) : id \in {x \in Sections(ini) : ini.heap[x].hash # None}}
            Of(title) == CHOOSE id \in Overrides(ini) : TitleLine(ini.heap[id]) = title
        IN  /\ \A id \in Overrides(ini) : Occurrences(lines, TitleLine(ini.heap[id])) = 1
            /\ \A i \in 1..Len(lines) :
                  /\ lines[i] \in titles =>
                        /\ i + 3 <= Len(lines)
                        /\ lines[i + 1] = "\n"
                        /\ lines[i + 2] = HashLine(ini.heap[Of(lines[i])])
                        /\ lines[i + 3] = "\n"
                  /\ lines[i] \in hashes => (i > 2 /\ lines[i - 2] \in titles)

C16_Witness ==
    /\ builds >= 1
    /\ script.by = "IniMaker"
    /\ \E i \in 1..(Len(lines) - 4) :
          /\ lines[i] = "[TextureOverrideVertexLimitRaiseVB0]"
          /\ lines[i + 2] = "hash = 0a1b2c3d"
          /\ lines[i + 4] = "match_priority = 0"

\* the calls of one name made so far for the group numbered index
CallsFor(name, index) == SelectSeq(calls, LAMBDA e : e.call = name /\ e.index = index)

\* the text of the last call of a sequence of header or footer calls
LastText(cs) == IF cs = <<>> THEN <<>> ELSE cs[Len(cs)].text

(* C17: set_group_header, set_group_footer and add_section called with one
   index act, in any order, on one and the same group: the builder holds
   exactly one group per index used, whose header and footer are the texts
   of the last header and footer calls for that index and whose sections
   are those added for it, in call order; no later call drops what an
   earlier one attached.  Group 8 of IniMaker keeps its header and its two
   sections after set_group_footer(8), and the built document shows header,
   sections and footer of one group in that order. *)
C17_SharedGroup ==
    LET used == {calls[k].index : k \in 1..Len(calls)}
        Shown(marks) == SelectSeq(lines, LAMBDA c : c \in Symbols(marks))
    IN  /\ \A p, q \in 1..Len(ini.groups) : ini.groups[p].index = ini.groups[q].index => p = q
        /\ {ini.groups[p].index : p \in 1..Len(ini.groups)} = used
        /\ \A p \in 1..Len(ini.groups) :
              LET g == ini.groups[p]
                  adds == CallsFor("add_section", g.index)
              IN  /\ g.header = LastText(CallsFor("set_group_header", g.index))
                  /\ g.footer = LastText(CallsFor("set_group_footer", g.index))
                  /\ g.sections = [k \in 1..Len(adds) |-> adds[k].section]
        /\ (script.by = "IniMaker" /\ pc > Len(script.program)) =>
              /\ raised = "none"
              /\ LET g == ini.groups[GroupPos(ini, 8)]
                 IN  /\ g.header # <<>>
                     /\ Len(g.sections) = 2
                     /\ g.footer # <<>>
        /\ (script.by = "IniMaker" /\ builds >= 1) =>
              LET marks == <<"; Resources: Skeleton Override -------------------------",
                             "[ResourceShapeKeyDataRef]", "[ResourceMergedSkeletonRW]",
                             "; Autogenerated -------------------------">>
              IN  Shown(marks) = marks
        /\ (script.by = "script" /\ builds >= 1) =>
              LET marks == <<"; Hdr", "[" \o script.p.shape.section_type \o "Foo]",
                             "[ResourceBar]", "; Ftr">>
              IN  Shown(marks) = marks

\* a caller that set the footer of a group before it added the first
\* section to it, and the header after that, has built its document
C17_Witness ==
    /\ builds >= 1
    /\ script.by = "script"
    /\ script.p.order = <<"set_group_footer", "add_section", "set_group_header">>
    /\ Len(ini.groups) = 1
    /\ Len(ini.groups[1].sections) = 2
    /\ ini.groups[1].header # <<>> /\ ini.groups[1].footer # <<>>

\* the lines the calls of a program append to bodies, in call order, as a
\* document shows them
Appended(program, suppressed) ==
    LET OfCall(c) ==
            CASE c.call = "add_comment" -> IF suppressed THEN <<>> ELSE <<"; " \o c.text>>
              [] c.call = "add_persistent_comment" -> <<"; " \o c.text>>
              [] c.call = "add_command" -> <<c.text>>
              [] OTHER -> <<>>
    IN  Flatten([k \in 1..Len(program) |-> OfCall(program[k])])

(* C18: a line appended to the body of a section, or to the body of a
   clause that add_if_clause returned, after the section was added to the
   builder is in the built document, in the order of the appends; the
   builder renders the body as it is at build time.  The document of a
   script is the same whether the section was added before or after its
   body was filled, and the document of IniMaker, which adds each section
   before it fills the body, shows every appended line as often as it was
   appended. *)
C18_LiveBody ==
    builds >= 1 =>
        LET appended == Appended(script.program, ini.skip_comments)
            shown == Symbols(appended)
        IN  /\ script.by = "script" =>
                  SelectSeq(lines, LAMBDA c : c \in shown) = appended
            /\ script.by = "IniMaker" =>
                  \A t \in shown : Occurrences(lines, t) = Occurrences(appended, t)

\* a script that added its section first and filled the body, a block with
\* a nested block included, afterwards has built its document
C18_Witness ==
    /\ builds >= 1
    /\ script.by = "script"
    /\ script.p.early /\ script.p.nested /\ Len(script.p.clauses) >= 2
    /\ {"k1", "A", "N", "Z", "B", "k2"} \subseteq Symbols(lines)

-----------------------------------------------------------------------------
(* Properties of the references between the sections of IniMaker *)

\* the commands of IniMaker that name a section of its own document, each
\* with the title it names
LocalReferences ==
    {<<"run = CommandList" \o n, "CommandList" \o n>> :
        n \in {"RegisterMod", "MergeSkeleton", "SkinMesh", "OverrideSharedResources",
               "OverrideTextures", "SetupShapeKeys", "LoadShapeKeys", "MultiplyShapeKeys"}}
    \cup {<<"this = ResourceTexture" \o Str(i), "ResourceTexture" \o Str(i)>> : i \in 0..MaxTextures}
    \cup {<<"Resource\\WWMIv1\\Mod" \o n \o " = ref ResourceMod" \o n, "ResourceMod" \o n>> :
            n \in {"Name", "Author", "Desc", "Link", "Logo"}}
    \cup {<<"cs-u6 = ResourceShapeKeyCBRW", "ResourceShapeKeyCBRW">>,
          <<"cs-u5 = ResourceCustomShapeKeyValuesRW", "ResourceCustomShapeKeyValuesRW">>,
          <<"cs-u6 = ResourceMergedSkeletonRW", "ResourceMergedSkeletonRW">>,
          <<"cs-t3 = ResourceShapeKeyDataRef", "ResourceShapeKeyDataRef">>,
          <<"ResourceShapeKeyDataRef = ref cs-t3", "ResourceShapeKeyDataRef">>}

\* the references a document makes
ReferencesOf(text) == {r \in LocalReferences : r[1] \in Symbols(text)}

(* C19: the shape key override group (4) and the shape key resources group
   (7) are in the document together, exactly when
   shapekeys.custom_vertex_count > 0, and in both cases every command of the
   built document that refers to a section of this document by title
   (run = CommandList..., this = ResourceTexture<i>, ref ResourceMod...,
   ResourceShapeKeyCBRW, ResourceCustomShapeKeyValuesRW,
   ResourceMergedSkeletonRW, ResourceShapeKeyDataRef) names a section whose
   title line is in the built document. *)
C19_NoDanglingReferences ==
    builds >= 1 =>
        /\ GroupPos(ini, 4) # 0 <=> maker.shapekeys.custom_vertex_count > 0
        /\ GroupPos(ini, 7) # 0 <=> maker.shapekeys.custom_vertex_count > 0
        /\ \A r \in ReferencesOf(lines) : "[" \o r[2] \o "]" \in Symbols(lines)

\* a document with shape keys, a component and a texture makes every
\* reference of the table but those to textures it does not have
C19_Witness ==
    /\ builds >= 1
    /\ maker.shapekeys.custom_vertex_count > 0
    /\ Len(maker.textures) = MaxTextures
    /\ ReferencesOf(lines) =
          LocalReferences \ {<<"this = ResourceTexture" \o Str(MaxTextures),
                               "ResourceTexture" \o Str(MaxTextures)>>}

-----------------------------------------------------------------------------
(* Properties of the texture collector *)

\* what the name of an entry was made to show: an image suffix of line 21,
\* and a full hash behind one of the two formats
Recognised(entry) == entry.shape.suffix \in {"dds", "PNG", "tif"}
Patterned(entry) == entry.shape.format \in {"new", "old"} /\ entry.shape.digits \in {"A", "B"}
ShownHash(entry) == IF entry.shape.digits = "A" THEN HashA ELSE <<"4", "e", "5", "f", "6", "a", "7", "b">>

\* the entries gone through so far that are to be collected
Collectable == {i \in 1..scanned : Recognised(folder[i]) /\ Patterned(folder[i])}

(* C20: get_textures holds, and returns, at most one Texture per hash of
   eight hex digits: the Texture of the entry scanned last among those
   that show the hash; an entry whose lower-cased name has no image suffix
   or shows neither t=<hash> nor component_<d>-ps-t<d>-<hash> is not
   collected; and every Texture has a filename that ends in .dds, whether
   no conversion was tried, or one ran, failed or raised. *)
C20_TexturesByHash ==
    /\ \A i, j \in 1..Len(textures) : textures[i].hash = textures[j].hash => i = j
    /\ \A i \in 1..Len(textures) :
          /\ Len(textures[i].hash) = 8
          /\ \A k \in 1..8 : textures[i].hash[k] \in LowerHexDigits
          /\ endswith(textures[i].filename, <<".", "d", "d", "s">>)
          /\ \E k \in Collectable :
                /\ folder[k].name = textures[i].path
                /\ ShownHash(folder[k]) = textures[i].hash
                /\ \A later \in Collectable :
                      ShownHash(folder[later]) = textures[i].hash => later <= k
    /\ \A k \in Collectable : \E i \in 1..Len(textures) : textures[i].hash = ShownHash(folder[k])
    /\ \A k \in 1..scanned :
          (~Recognised(folder[k]) \/ ~Patterned(folder[k])) =>
              \A i \in 1..Len(textures) : textures[i].path # folder[k].name
    /\ \A c \in 1..Len(conversions) :
          \E k \in Collectable : folder[k].name = conversions[c].path
    /\ returned # None => (scanned = Len(folder) /\ returned[1] = textures)

\* two files of one hash were scanned, the second one replaced the first,
\* its conversion raised, and the one Texture was returned with a dds name
C20_Witness ==
    /\ returned # None
    /\ Len(folder) = 2
    /\ Len(returned[1]) = 1
    /\ returned[1][1].path = folder[2].name
    /\ Len(conversions) >= 1
    /\ conversions[Len(conversions)].outcome \in {"KeyError", "AttributeError", "OSError", "failed"}
    /\ conversions[Len(conversions)].path = folder[2].name
    /\ ~endswith(lower(folder[2].name), <<".", "d", "d", "s">>)

=========================================================================
